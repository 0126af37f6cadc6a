---------------------------- MODULE CommandQueue ----------------------------
(***************************************************************************)
(* The command queue of one device (agentCommand.service.ts), its delivery *)
(* by the hub (obliguardHub.service.ts) and its execution by the agent     *)
(* (cmd_ws.go): operators enqueue, drains claim rows and write frames on a *)
(* channel, the agent acknowledges, runs and reports, sweeps close what    *)
(* nobody answered, a cleanup job deletes an uninstalled device.           *)
(*                                                                         *)
(* A drain is one run of _deliverCommands, or the legacy part of           *)
(* handlePush; two may run at once (the drain of register is not in the    *)
(* channel's queue, and an old channel's drain may still be running).      *)
(* Every database statement is one step; claim's transaction holds the     *)
(* device row's lock over two of them.                                     *)
(***************************************************************************)
EXTENDS Integers, Sequences, FiniteSets

CONSTANTS
    Types,            \* command types; "uninstall" is special
    Drains,           \* concurrent drains
    MaxRows,          \* bound: agent_commands rows ever inserted
    MaxConns,         \* bound: channels ever opened by the agent
    MaxCrashes        \* bound: server restarts

ASSUME CommandAssumption ==
    /\ "uninstall" \in Types /\ Types \subseteq {"uninstall", "restart", "firewall_resync"}
    /\ MaxRows \in Nat /\ MaxConns \in Nat /\ MaxCrashes \in Nat

VARIABLES
    rows,        \* agent_commands: row id -> row
    due,         \* rows whose expires_at has passed
    pending,     \* agent_devices.pending_command = 'uninstall'
    commanded,   \* agent_devices.uninstall_commanded_at is set
    device,      \* "approved", "suspended" or "deleted"
    drain,       \* the drains
    lock,        \* the drain holding the device row in claim's transaction
    ackClears,   \* a failed uninstall's second UPDATE is still to come
    channel,     \* server side of each channel: "new", "open" or "closed"
    down, up,    \* frames in flight to and from the agent, per channel
    agentChannel,\* the channel the agent uses; 0 = none
    capable,     \* the agent advertises 'cmdqueue'
    stored,      \* agent_devices.capabilities holds 'cmdqueue'
    agent,       \* "running", "restarting", "exiting" or "gone"
    waiting,     \* commands started, waiting for queuedCmds.run
    turn,        \* the command holding queuedCmds.run; 0 = none
    origin,      \* the channel a command came from
    crashes,
    sweeping,    \* commandSweep: the timer of this server process is running
    \* History
    executed,    \* how often the agent ran each row
    outcome,     \* the agent's own result of each row
    written      \* how often each row's frame was written on a channel

serverVars == <<rows, due, pending, commanded, device, ackClears>>
drainVars == <<drain, lock, crashes, sweeping, written>>
netVars == <<channel, down, up, agentChannel>>
agentVars == <<capable, stored, agent, waiting, turn, origin, executed, outcome>>
vars == <<serverVars, drainVars, netVars, agentVars>>

Ids == 1 .. MaxRows
Conns == 1 .. MaxConns
NoRow == [type |-> "none", status |-> "none", finished |-> FALSE, legacy |-> FALSE]
IdleDrain == [pc |-> "idle", conn |-> 0, legacy |-> FALSE, hand |-> {}, unsent |-> {}]

\* Commands other than an uninstall expire (COMMAND_TTL_MS).
HasTtl(r) == rows[r].type \notin {"uninstall", "none"}

----------------------------------------------------------------------------
(* The table.                                                               *)

\* Fault: an acknowledged command no longer counts as pending.
OpenNotAcked(row) == row.status \in {"queued", "sent"} /\ ~row.finished

\* OPEN_STATUSES with finished_at null: the rows of the partial unique index.
Open(row) == row.status \in {"queued", "sent", "acked"} /\ ~row.finished

Outstanding(t) == \E r \in Ids : rows[r].type = t /\ Open(rows[r])

Unused == { r \in Ids : rows[r] = NoRow }
NextId == CHOOSE r \in Unused : \A q \in Unused : r <= q

NewRow(t) == [type |-> t, status |-> "queued", finished |-> FALSE, legacy |-> FALSE]

ExpireAll(t, S) == [r \in Ids |-> IF r \in S /\ t[r].status = "queued"
                                  THEN [t[r] EXCEPT !.status = "expired", !.finished = TRUE]
                                  ELSE t[r]]

Init ==
    /\ rows = [r \in Ids |-> NoRow] /\ due = {}
    /\ pending = FALSE /\ commanded = FALSE /\ device = "approved"
    /\ drain = [d \in Drains |-> IdleDrain] /\ lock = {} /\ ackClears = FALSE
    /\ channel = [c \in Conns |-> "new"]
    /\ down = [c \in Conns |-> <<>>] /\ up = [c \in Conns |-> <<>>]
    /\ agentChannel = 0 /\ capable \in BOOLEAN /\ stored = FALSE
    /\ agent = "running" /\ waiting = {} /\ turn = 0 /\ origin = [r \in Ids |-> 0]
    /\ crashes = 0 /\ sweeping = FALSE
    /\ executed = [r \in Ids |-> 0] /\ outcome = [r \in Ids |-> "none"] /\ written = [r \in Ids |-> 0]

----------------------------------------------------------------------------
(* Operators.                                                               *)

\* enqueue (enqueueMany runs it per device): refused while one is outstanding.
Enqueue(t) ==
    /\ device # "deleted" /\ lock = {} /\ Unused # {}
    /\ ~Outstanding(t)
    /\ rows' = [rows EXCEPT ![NextId] = NewRow(t)]
    /\ pending' = (pending \/ t = "uninstall")
    /\ UNCHANGED <<due, commanded, device, ackClears, drainVars, netVars, agentVars>>

\* Tenant deletion marks the devices that were not told yet.
UninstallTenant ==
    /\ device = "approved" /\ lock = {} /\ ~commanded /\ ~pending
    /\ Unused # {}
    /\ pending' = TRUE
    /\ UNCHANGED <<rows, due, commanded, device, ackClears, drainVars, netVars, agentVars>>

\* suspendDevice closes the device's channel; reinstateDevice.
Suspend ==
    /\ device = "approved" /\ lock = {}
    /\ device' = "suspended"
    /\ channel' = [c \in Conns |-> IF channel[c] = "open" THEN "closed" ELSE channel[c]]
    /\ UNCHANGED <<rows, due, pending, commanded, ackClears, drainVars, down, up, agentChannel,
                   agentVars>>

Reinstate ==
    /\ device = "suspended" /\ lock = {}
    /\ device' = "approved"
    /\ UNCHANGED <<rows, due, pending, commanded, ackClears, drainVars, netVars, agentVars>>

----------------------------------------------------------------------------
(* Delivery: claim, send, requeue.                                          *)

\* claim's transaction, up to the SELECT of the rows: expired rows first, a
\* row for a bare pending uninstall, then what this drain may take.
ClaimTable ==
    LET swept == ExpireAll(rows, due)
    IN  IF pending /\ ~Outstanding("uninstall") /\ Unused # {}
        THEN [swept EXCEPT ![NextId] = NewRow("uninstall")]
        ELSE swept

Claimable(t, legacy) ==
    { r \in Ids : t[r].status = "queued" /\ (legacy => t[r].type = "uninstall") }

\* A drain starts on an open channel: register (stored capabilities), a
\* heartbeat (fresh ones, stored; a legacy agent only while pending_command
\* says so) or a request to deliver now (stored).
StartDrain(d, c, heartbeat) ==
    /\ drain[d].pc = "idle" /\ lock = {}
    /\ channel[c] = "open" /\ device = "approved"
    /\ stored' = IF heartbeat THEN capable ELSE stored
    /\ heartbeat /\ ~capable => pending
    /\ LET legacy == ~stored'
           hand == Claimable(ClaimTable, legacy)
       IN  /\ rows' = ClaimTable
           /\ hand # {}
           /\ drain' = [drain EXCEPT ![d] = [pc |-> "claim", conn |-> c, legacy |-> legacy,
                                             hand |-> hand, unsent |-> {}]]
           /\ lock' = {d}
    /\ UNCHANGED <<due, pending, commanded, device, ackClears, crashes, sweeping, written, netVars,
                   capable, agent, waiting, turn, origin, executed, outcome>>

\* A heartbeat with nothing to claim only refreshes the capabilities.
Heartbeat(c) ==
    /\ channel[c] = "open" /\ device = "approved" /\ lock = {}
    /\ stored' = capable
    /\ UNCHANGED <<serverVars, drainVars, netVars, capable, agent, waiting, turn, origin, executed, outcome>>

\* Fault: a claimed row is not marked.
MarkedNot(row, legacy) == row

\* A legacy delivery cannot be acknowledged: it is finished when claimed.
Marked(row, legacy) ==
    [row EXCEPT !.status = "sent", !.legacy = legacy, !.finished = @ \/ legacy]

\* claim's UPDATEs (by row id) and COMMIT.
ClaimCommit(d) ==
    /\ drain[d].pc = "claim"
    /\ rows' = [r \in Ids |-> IF r \in drain[d].hand
                              THEN Marked(rows[r], drain[d].legacy) ELSE rows[r]]
    /\ \/ /\ \E r \in drain[d].hand : rows[r].type = "uninstall"
          /\ pending' = FALSE /\ commanded' = TRUE
       \/ /\ \A r \in drain[d].hand : rows[r].type # "uninstall"
          /\ UNCHANGED <<pending, commanded>>
    /\ drain' = [drain EXCEPT ![d].pc = "send"]
    /\ lock' = {}
    /\ UNCHANGED <<due, device, ackClears, crashes, sweeping, written, netVars, agentVars>>

\* Where the drain goes once row r is dealt with.
AfterRow(d, r, unsent) ==
    LET rest == drain[d].hand \ {r}
    IN  [drain[d] EXCEPT !.hand = rest, !.unsent = unsent,
             !.pc = IF rest # {} THEN "send" ELSE IF unsent # {} THEN "requeue" ELSE "idle"]

Oldest(S) == CHOOSE r \in S : \A q \in S : r <= q

\* _send on a live channel: the frame is on its way (and may still be lost).
SendFrame(d) ==
    /\ drain[d].pc = "send" /\ channel[drain[d].conn] = "open"
    /\ LET r == Oldest(drain[d].hand)
           c == drain[d].conn
       IN  /\ down' = [down EXCEPT ![c] = Append(@, [id |-> r, legacy |-> drain[d].legacy])]
           /\ written' = [written EXCEPT ![r] = @ + 1]
           /\ drain' = [drain EXCEPT ![d] = AfterRow(d, r, drain[d].unsent)]
    /\ UNCHANGED <<serverVars, lock, crashes, sweeping, channel, up, agentChannel, agentVars>>

\* _send on a channel that closed meanwhile.
SendFails(d) ==
    /\ drain[d].pc = "send" /\ channel[drain[d].conn] # "open"
    /\ LET r == Oldest(drain[d].hand)
       IN  drain' = [drain EXCEPT ![d] = AfterRow(d, r, drain[d].unsent \union {r})]
    /\ UNCHANGED <<serverVars, lock, crashes, sweeping, written, netVars, agentVars>>

\* _commandPayload: the ban list of a resync cannot be resolved.
PayloadFails(d) ==
    /\ drain[d].pc = "send"
    /\ LET r == Oldest(drain[d].hand)
       IN  /\ rows[r].type = "firewall_resync"
           /\ rows' = IF rows[r].status \in {"queued", "sent", "acked"}
                      THEN [rows EXCEPT ![r].status = "failed", ![r].finished = TRUE] ELSE rows
           /\ drain' = [drain EXCEPT ![d] = AfterRow(d, r, drain[d].unsent)]
    /\ UNCHANGED <<due, pending, commanded, device, ackClears, lock, crashes, sweeping, written, netVars,
                   agentVars>>

\* Rows the unsent frames give back: still 'sent', and unfinished or legacy.
Returning(d) ==
    { r \in drain[d].unsent : rows[r].status = "sent" /\ (~rows[r].finished \/ rows[r].legacy) }

\* The partial unique index refuses the whole UPDATE: a legacy delivery was
\* finished, so a new command of its type may have been queued meanwhile.
Refused(d) ==
    \E r \in Returning(d), q \in Ids \ Returning(d) : rows[q].type = rows[r].type /\ Open(rows[q])

\* requeue, first UPDATE.  A refused one ends the drain with a logged error.
Requeue(d) ==
    /\ drain[d].pc = "requeue"
    /\ \/ /\ ~Refused(d)
          /\ rows' = [r \in Ids |-> IF r \in Returning(d) THEN NewRow(rows[r].type) ELSE rows[r]]
          /\ drain' = [drain EXCEPT ![d] =
                 IF \E r \in Returning(d) : rows[r].type = "uninstall"
                 THEN [@ EXCEPT !.pc = "flag", !.unsent = {}] ELSE IdleDrain]
       \/ /\ Refused(d)
          /\ drain' = [drain EXCEPT ![d] = IdleDrain]
          /\ rows' = rows
    /\ UNCHANGED <<due, pending, commanded, device, ackClears, lock, crashes, sweeping, written, netVars,
                   agentVars>>

\* requeue, second UPDATE: the device's uninstall flags.
RequeueFlags(d) ==
    /\ drain[d].pc = "flag" /\ lock = {}
    /\ pending' = TRUE /\ commanded' = FALSE
    /\ drain' = [drain EXCEPT ![d] = IdleDrain]
    /\ UNCHANGED <<rows, due, device, ackClears, lock, crashes, sweeping, written, netVars, agentVars>>

----------------------------------------------------------------------------
(* Acknowledgements, sweeps, cleanup, server restart.                       *)

\* Fault: a result is taken whatever the row's state.
AckAppliesAlways(row, status) == row.status \notin {"none", "queued"}

AckApplies(row, status) ==
    /\ ~row.finished
    /\ row.status \in (IF status = "acked" THEN {"sent"} ELSE {"sent", "acked"})

\* ack: 'acked' moves a sent row, a final status closes a sent or acked one.
ReceiveAck(c) ==
    /\ channel[c] = "open" /\ up[c] # <<>> /\ device # "deleted"
    /\ up' = [up EXCEPT ![c] = Tail(@)]
    /\ LET r == Head(up[c]).id
           status == Head(up[c]).status
       IN  \/ /\ AckApplies(rows[r], status)
              /\ rows' = [rows EXCEPT ![r].status = status, ![r].finished = (status # "acked")]
              /\ ackClears' = (ackClears \/ (status = "failed" /\ rows[r].type = "uninstall"))
           \/ /\ ~AckApplies(rows[r], status)
              /\ UNCHANGED <<rows, ackClears>>
    /\ UNCHANGED <<due, pending, commanded, device, drainVars, channel, down, agentChannel, agentVars>>

\* ack, second UPDATE, after a failed uninstall.
AckClearsFlag ==
    /\ ackClears /\ lock = {}
    /\ ackClears' = FALSE
    /\ commanded' = FALSE
    /\ UNCHANGED <<rows, due, pending, device, drainVars, netVars, agentVars>>

\* A row's expires_at passes.
TtlPasses(r) ==
    /\ HasTtl(r) /\ Open(rows[r]) /\ r \notin due
    /\ due' = due \union {r}
    /\ UNCHANGED <<rows, pending, commanded, device, ackClears, drainVars, netVars, agentVars>>

\* sweep: queued rows past expires_at.
SweepExpired ==
    /\ sweeping /\ \E r \in due : rows[r].status = "queued"
    /\ rows' = ExpireAll(rows, due)
    /\ UNCHANGED <<due, pending, commanded, device, ackClears, drainVars, netVars, agentVars>>

\* Fault: acknowledged commands never time out.
TimesOutSentOnly(row) == row.status = "sent" /\ ~row.finished

TimesOut(row) == row.status \in {"sent", "acked"} /\ ~row.finished

\* sweep: no final result RESULT_TIMEOUT_MS after the delivery.  Fifteen
\* minutes outlast any drain; the agent may still be running the command.
SweepTimedOut(r) ==
    /\ sweeping /\ TimesOut(rows[r])
    /\ \A d \in Drains : r \notin drain[d].hand \union drain[d].unsent
    /\ rows' = [rows EXCEPT ![r].status = "failed", ![r].finished = TRUE]
    /\ UNCHANGED <<due, pending, commanded, device, ackClears, drainVars, netVars, agentVars>>

\* cleanupUninstalledDevices: ten minutes after uninstall_commanded_at, which
\* also outlast any drain; bulkDeleteDevices closes the channel.
CleanupDevice ==
    /\ commanded /\ device # "deleted" /\ lock = {} /\ ~ackClears
    /\ \A d \in Drains : drain[d].pc = "idle"
    /\ device' = "deleted"
    /\ channel' = [c \in Conns |-> IF channel[c] = "open" THEN "closed" ELSE channel[c]]
    /\ UNCHANGED <<rows, due, pending, commanded, ackClears, drainVars, down, up, agentChannel,
                   agentVars>>

\* The server restarts: what it was doing is forgotten, an open transaction
\* is rolled back, every channel closes, and nothing sweeps the queue until an
\* agent registers.
ServerRestart ==
    /\ crashes < MaxCrashes
    /\ crashes' = crashes + 1
    /\ drain' = [d \in Drains |-> IdleDrain] /\ lock' = {} /\ ackClears' = FALSE
    /\ channel' = [c \in Conns |-> IF channel[c] = "open" THEN "closed" ELSE channel[c]]
    /\ sweeping' = FALSE
    /\ UNCHANGED <<rows, due, pending, commanded, device, written, down, up, agentChannel, agentVars>>

----------------------------------------------------------------------------
(* Channels.                                                                *)

\* The agent dials; register replaces the device's previous channel and starts
\* the sweep timer unless it runs already (_startCommandSweep).
AgentConnect(c) ==
    /\ agent \in {"running", "restarting"} /\ agentChannel = 0 /\ device = "approved"
    /\ channel[c] = "new" /\ \A q \in 1 .. c - 1 : channel[q] # "new"
    /\ agentChannel' = c
    /\ channel' = [q \in Conns |-> IF q = c THEN "open"
                                   ELSE IF channel[q] = "open" THEN "closed" ELSE channel[q]]
    /\ sweeping' = TRUE
    /\ UNCHANGED <<serverVars, drain, lock, crashes, written, down, up, agentVars>>

\* The channel of another device registers: one timer sweeps for all of them.
OtherRegisters ==
    /\ ~sweeping
    /\ sweeping' = TRUE
    /\ UNCHANGED <<serverVars, drain, lock, crashes, written, netVars, agentVars>>

\* The agent sees its channel fail; frames on their way to it are lost.
AgentDisconnect ==
    /\ agentChannel # 0
    /\ agentChannel' = 0
    /\ down' = [down EXCEPT ![agentChannel] = <<>>]
    /\ UNCHANGED <<serverVars, drainVars, channel, up, agentVars>>

\* The server notices that a channel is dead (close event or missed ping).
ServerDisconnect(c) ==
    /\ channel[c] = "open" /\ agentChannel # c
    /\ channel' = [channel EXCEPT ![c] = "closed"]
    /\ UNCHANGED <<serverVars, drainVars, down, up, agentChannel, agentVars>>

----------------------------------------------------------------------------
(* The agent.                                                               *)

Alive == agent \in {"running", "restarting", "exiting"}

\* An acknowledgement leaves on the channel the command came from, or is lost.
Acked(r, status) ==
    IF agentChannel # 0 /\ agentChannel = origin[r]
    THEN [up EXCEPT ![agentChannel] = Append(@, [id |-> r, status |-> status])] ELSE up

\* A command frame: startQueuedCommand, a goroutine waits for its turn.  (The
\* answer to a frame delivered twice is left out: see WrittenOnce.)
ReceiveCommand(c) ==
    /\ Alive /\ agentChannel = c /\ down[c] # <<>> /\ ~Head(down[c]).legacy
    /\ waiting' = waiting \union {Head(down[c]).id}
    /\ origin' = [origin EXCEPT ![Head(down[c]).id] = c]
    /\ down' = [down EXCEPT ![c] = Tail(@)]
    /\ UNCHANGED <<serverVars, drainVars, channel, up, agentChannel, capable, stored, agent,
                   turn, executed, outcome>>

\* The legacy config frame: handleUninstallCommand, at once and without ack.
ReceiveLegacy(c) ==
    /\ Alive /\ agentChannel = c /\ down[c] # <<>> /\ Head(down[c]).legacy
    /\ LET r == Head(down[c]).id
       IN  /\ executed' = [executed EXCEPT ![r] = @ + 1]
           /\ \/ agent' = "exiting" /\ outcome' = [outcome EXCEPT ![r] = "succeeded"]
              \/ agent' = agent /\ outcome' = [outcome EXCEPT ![r] = "failed"]
    /\ down' = [down EXCEPT ![c] = Tail(@)]
    /\ UNCHANGED <<serverVars, drainVars, channel, up, agentChannel, capable, stored,
                   waiting, turn, origin>>

\* queuedCmds.run is taken, 'acked' is sent.
TakeTurn(r) ==
    /\ agent = "running" /\ turn = 0 /\ r \in waiting
    /\ turn' = r
    /\ waiting' = waiting \ {r}
    /\ up' = Acked(r, "acked")
    /\ UNCHANGED <<serverVars, drainVars, channel, down, agentChannel, capable, stored, agent,
                   origin, executed, outcome>>

\* runQueuedCommand: the command runs, its result is remembered and sent; a
\* restart or an uninstall that could be prepared ends the process afterwards.
Finish(r, result) ==
    /\ agent = "running" /\ turn = r
    /\ executed' = [executed EXCEPT ![r] = @ + 1]
    /\ outcome' = [outcome EXCEPT ![r] = result]
    /\ up' = Acked(r, result)
    /\ \/ /\ result = "succeeded" /\ rows[r].type = "restart"
          /\ agent' = "restarting" /\ turn' = turn
       \/ /\ result = "succeeded" /\ rows[r].type = "uninstall"
          /\ agent' = "exiting" /\ turn' = turn
       \/ /\ result = "failed" \/ rows[r].type = "firewall_resync"
          /\ agent' = agent /\ turn' = 0
    /\ UNCHANGED <<serverVars, drainVars, channel, down, agentChannel, capable, stored,
                   waiting, origin>>

\* The process ends (restart, crash) and starts again.
AgentRestart ==
    /\ agent \in {"running", "restarting"}
    /\ agent' = "running"
    /\ waiting' = {} /\ turn' = 0
    /\ agentChannel' = 0
    /\ down' = [c \in Conns |-> <<>>]
    /\ UNCHANGED <<serverVars, drainVars, channel, up, capable, stored, origin, executed, outcome>>

\* os.Exit after the uninstall script was launched.
AgentExit ==
    /\ agent = "exiting"
    /\ agent' = "gone"
    /\ agentChannel' = 0
    /\ down' = [c \in Conns |-> <<>>]
    /\ UNCHANGED <<serverVars, drainVars, channel, up, capable, stored, waiting, turn, origin, executed, outcome>>

----------------------------------------------------------------------------
DrainStep(d) ==
    \/ ClaimCommit(d) \/ SendFrame(d) \/ SendFails(d)
    \/ Requeue(d) \/ RequeueFlags(d)

Next ==
    \/ \E t \in Types : Enqueue(t)
    \/ UninstallTenant \/ Suspend \/ Reinstate
    \/ \E d \in Drains, c \in Conns, heartbeat \in BOOLEAN : StartDrain(d, c, heartbeat)
    \/ \E c \in Conns : Heartbeat(c)
    \/ \E d \in Drains : DrainStep(d) \/ PayloadFails(d)
    \/ \E c \in Conns : ReceiveAck(c)
    \/ AckClearsFlag
    \/ \E r \in Ids : TtlPasses(r) \/ SweepTimedOut(r)
    \/ SweepExpired \/ CleanupDevice \/ ServerRestart
    \/ \E c \in Conns : AgentConnect(c) \/ ServerDisconnect(c)
    \/ AgentDisconnect \/ OtherRegisters
    \/ \E c \in Conns : ReceiveCommand(c) \/ ReceiveLegacy(c)
    \/ \E r \in Ids : TakeTurn(r) \/ \E result \in {"succeeded", "failed"} : Finish(r, result)
    \/ AgentRestart \/ AgentExit

Spec == Init /\ [][Next]_vars

(***************************************************************************)
(* Fairness for the sweeps: a timer that runs fires, statements end.       *)
(* Nothing makes an agent register, so nothing makes the timer run.        *)
(***************************************************************************)
Fairness ==
    /\ \A d \in Drains : WF_vars(DrainStep(d))
    /\ \A r \in Ids : WF_vars(TtlPasses(r)) /\ WF_vars(SweepTimedOut(r))
    /\ WF_vars(SweepExpired)

FairSpec == Spec /\ Fairness

----------------------------------------------------------------------------
(* Properties.                                                              *)

Statuses == {"none", "queued", "sent", "acked", "succeeded", "failed", "expired"}

RowRec == [type : Types \union {"none"}, status : Statuses, finished : BOOLEAN, legacy : BOOLEAN]
DrainRec == [pc : {"idle", "claim", "send", "requeue", "flag"}, conn : 0 .. MaxConns,
             legacy : BOOLEAN, hand : SUBSET Ids, unsent : SUBSET Ids]
Frame == [id : Ids, legacy : BOOLEAN]
Report == [id : Ids, status : {"acked", "succeeded", "failed"}]

\* Every variable keeps its type.
TypeOK ==
    /\ rows \in [Ids -> RowRec]
    /\ due \subseteq Ids /\ pending \in BOOLEAN /\ commanded \in BOOLEAN
    /\ device \in {"approved", "suspended", "deleted"}
    /\ drain \in [Drains -> DrainRec] /\ lock \subseteq Drains /\ ackClears \in BOOLEAN
    /\ channel \in [Conns -> {"new", "open", "closed"}]
    /\ down \in [Conns -> Seq(Frame)] /\ up \in [Conns -> Seq(Report)]
    /\ agentChannel \in 0 .. MaxConns /\ capable \in BOOLEAN /\ stored \in BOOLEAN
    /\ agent \in {"running", "restarting", "exiting", "gone"}
    /\ waiting \subseteq Ids /\ turn \in 0 .. MaxRows /\ origin \in [Ids -> 0 .. MaxConns]
    /\ executed \in [Ids -> Nat] /\ written \in [Ids -> Nat]
    /\ outcome \in [Ids -> {"none", "succeeded", "failed"}]
    /\ crashes \in 0 .. MaxCrashes /\ sweeping \in BOOLEAN

\* One outstanding command per device and type, whatever enqueue, claim and
\* requeue do to it at once (partial unique index of migration 042, 409
\* commandOutstanding).
OneOutstanding ==
    \A r, q \in Ids :
        /\ r # q /\ rows[r].type = rows[q].type
        /\ rows[r].status \in {"queued", "sent", "acked"} /\ ~rows[r].finished
        /\ rows[q].status \in {"queued", "sent", "acked"} /\ ~rows[q].finished
        => rows[r].type = "none"

\* The frame of a row is written at most once and the agent runs it at most
\* once: racing drains never claim the same row, and only frames that were not
\* written are requeued.
WrittenOnce ==
    \A r \in Ids : written[r] <= 1 /\ executed[r] <= written[r]

\* A final result is final: neither a late acknowledgement after the sweep nor
\* a requeue changes a row that succeeded or failed.
ResultStays ==
    [][\A r \in Ids : rows[r].status \in {"succeeded", "failed"} => rows'[r] = rows[r]]_vars

\* Every restart or resync is eventually closed, whether or not the device's
\* agent ever answers or its channel ever holds, as long as the sweep timer
\* runs: after a restart of the server it waits for some agent to register.
EveryCommandCloses ==
    <>[]sweeping =>
        \A r \in Ids :
            []<>(rows[r].type \notin {"none", "uninstall"} => ~Open(rows[r]))

\* requeue: "so the cleanup job does not delete an agent that never received
\* it": a device is deleted only if an uninstall frame was written.
CleanupOnlyAfterWrite ==
    device = "deleted" => \E r \in Ids : rows[r].type = "uninstall" /\ written[r] > 0
=============================================================================
