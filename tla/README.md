# A TLA+ verification project for Obliguard

Obliguard is an intrusion-prevention system: agents (Go, `src/agent/`) tail the
logs of their hosts, send authentication events to a server (TypeScript,
`src/server/`), and enforce in their local firewall the bans the server decides
on. Agent and server talk over one WebSocket per agent, with an HTTP push as a
fallback; the server keeps its state in PostgreSQL and, for live channels and
timers, in memory.

Every module here is translated from the source, and `PROJECT.json` names the
lines behind each definition (`map`), the hazards the properties are aimed at
(`hazards`), and the disagreements met on the way (`findings`).

To run: `tlc -workers 2 -config MCEventQueue.cfg MCEventQueue` for a model (the
configurations are listed below) and `tlapm EventQueueProofs.tla` for a proof
module.

## 1. Inventory

What is marked **M** is modelled, **p** in part, **-** not yet or not at all
(section 8 says why).

| Part | State it keeps | Operations | |
|---|---|---|---|
| Agent event pipeline (`logwatcher.go`, `eventqueue.go`, `cmd_ws.go`) | watcher buffer, one-slot signal, bounded queue, dropped count, session, outbound frame | addEvent, pump, Push, PopBatch, Requeue, flush, writer, session teardown and redial | M `EventQueue` |
| Command queue (`agentCommand.service.ts`, hub delivery, agent execution) | `agent_commands` rows, uninstall flags, frames in flight, the agent's running command | enqueue, claim, send, requeue, ack, sweeps, cleanup of uninstalled devices, legacy delivery | M `CommandQueue` |
| Agent presence (`obliguardHub.service.ts`) | channel per device, cached ids, grace timers, presence, open `agent_offline` incident | gate, register, replace, unregister, grace timer, offline sweep, recover, suspend, tenant deletion, restart | M `HubPresence` |
| Update rollout (`agentUpdateRollout.service.ts`, update part of `agent.service.ts`) | requests, `agent_update_attempts`, reservations, window, slot lock | heartbeat decision, slot, offer, count, reports, cleanup, request, cancel, freeze, restart | M `UpdateRollout` |
| Ban synchronisation (`ban.service.ts` computeBanDelta, `cmd_ws.go`, `bansafety.go`) | wanted bans, frames, mailbox and its signal, firewall rules, `fwApplyMu` | delta, filter, merge, ban worker, resync, purge, failures, restart | M `BanSync` |
| Gate, API keys, enrolment (`agentWsGate.ts`, `agentKey.service.ts`, binding part of `agent.service.ts`) | keys, the binding of a device, the hub's revoked keys and channel | verdict, register, claim, take over, enrol, disable, enable, delete, release, suspend | M `AgentGate` (staleness of the verdict for suspension and tenant deletion also in `HubPresence`) |
| Ban lifecycle (`ban.service.ts`) | `ip_bans`, exclusions | create, promote, lift, bulk lift, exclude, wipe, expire, external push and withdrawal | M `BanLifecycle`, implements `BanLedger` |
| Ban engine (`ban.service.ts` BanEngine) | cycle guard, window of failures, lift watermark | aggregate, covering lookup, whitelist, insert | M `BanLifecycle` |
| Remote blocklists (`remoteBlocklist.service.ts`) | list, entries, bans of the list | sync, upsert, prune, reconcile, edit, toggle, delete | p `RemoteBlocklist`, implements `BanLedger` |
| MikroTik integration (`mikrotik/`) | address list of a router | push, full sync, reconcile, purge | p `RouterSync` (not the log poller and the import) |
| Whitelist (`whitelist.service.ts`) | `ip_whitelist` | create, delete, checks | p in the three modules above |
| Live alerts (`liveAlert.service.ts`) | `live_alerts` | raise, resolve, acknowledge | p `HubPresence` (one incident) |
| Live updates to clients (`socket.ts`) | rooms | status changes | p `HubPresence` (last status) |
| Firewall backends (`firewall*.go`) | rules, pending sets | BanIP, UnbanIP, Flush, GetBannedIPs, switch | p `BanSync` |
| Agent self-update (`main.go`) | failure marker | check, download, verify, install, revert | p `UpdateRollout` |
| Log watcher and parsers | offsets, formats | tail, parse | p `EventQueue` |
| WebSocket framing | | read and write frames | p `EventQueue` |
| pushAndWait, rate limits | pending answers, rows | send, answer, time out; resolve | - |
| Notifications, reputation, GeoIP, Microsoft 365, single sign-on | | calls to external services | - |
| Authentication, tenants, permissions, settings, dashboards, audit, web client, tools | rows | request-local CRUD and resolution | - |

### How the parts interact

    log watchers -> EventQueue -> socket -> server: events, ban engine -> ip_bans
    operator -> CommandQueue rows -> drain (register, heartbeat, now) -> agent -> ack
    heartbeat -> handlePush -> presence (HubPresence)
                            -> update decision (UpdateRollout) -> config frame
                            -> ban delta (BanSync) -> config frame
    firewall_resync is a command of CommandQueue and a writer of BanSync
    AgentGate -> channel of HubPresence
    requests, expiry job, engine (BanLifecycle) and list syncs (RemoteBlocklist)
        -> ip_bans (BanLedger) -> wanted bans of BanSync
                               -> push and full sync of a router (RouterSync)

The channel of `HubPresence` carries everything else. Each of the other models
keeps the part of the channel it depends on (sessions that end at any time,
frames lost without an error, two channels of one device while one replaces the
other, a server restart) rather than the full presence machinery.

### What is hard

* The server is single-threaded, but its handlers are `async`: between two
  awaits anything else runs, and almost every decision is read before an await
  and used after it.
* Each database statement is atomic; sequences of them mostly are not.
* A device may have two drains, two heartbeat handlers (WebSocket and HTTP) and
  two channels at once.
* The agent has a goroutine per role; some hand over under a mutex, some over
  one-slot channels whose signals are dropped when full.
* Either side may restart between any two steps; frames and acknowledgements
  may be lost.

## 2. Modules

| Module | Contents |
|---|---|
| `EventQueue` | the agent's event path, per goroutine step |
| `EventQueueProofs` | theorems about it |
| `CommandQueue` | one device's command queue, server and agent |
| `CommandQueueProofs` | theorems about it |
| `HubPresence` | one device's presence |
| `HubPresenceProofs` | theorems about it |
| `UpdateRollout` | the fleet-wide pacing of updates |
| `UpdateRolloutProofs` | theorems about it |
| `BanSync` | how bans reach one agent's firewall |
| `BanSyncProofs` | theorems about it |
| `AgentGate` | who may speak for one device |
| `AgentGateProofs` | theorems about it |
| `BanLedger` | abstract specification of the `ip_bans` table |
| `BanLifecycle` | requests, expiry job and engine on the table |
| `RemoteBlocklist` | one remote list and its bans |
| `BanLifecycleProofs` | theorems about both writers of the table |
| `RouterSync` | the address list of one MikroTik router |
| `RouterSyncProofs` | theorems about it |
| `MC...` | constants, symmetry and starting states for TLC; a `.cfg` per run |

A definition whose comment begins with "Fault:" is a plausible bug of the
definition that follows it. It is used by no specification; it is there so that
each property can be shown to notice something (`mutants` in `PROJECT.json`).

Constants called `Max...`, and `Updaters` and `Kinds` of `UpdateRollout`, bound
the model and stand for no value of the code unless their comment says so.
Variables under "History" are read by no guard.

### EventQueue

A session is up, closing (its deferred teardown) or down. `AddEvent` and
`Signal` are the two halves of `addEvent` (append under the lock, then the
non-blocking send); `PumpReceive`, `DrainEvents`, `Push` are `pumpEvents`;
`FlushStart` to `Requeue` are the critical sections of `flushEventQueue` and
the phases of `sendSync`; the writer takes a frame, writes it, and only then
posts its result, so that a session may end in between. An event is its arrival
number: the properties compare positions and never look at contents.
The last session of the bound does not fail (`MayFail`), so that delivery can
be judged.

### CommandQueue

A drain is one run of `_deliverCommands` (or the legacy part of `handlePush`).
`StartDrain` is `claim`'s transaction up to its SELECT, `ClaimCommit` its
UPDATEs: it holds the device row over the two, and the operations that touch
that row wait (`lock = {}`), while sweeps and acknowledgements, which touch
only command rows, do not. `SendFrame`, `SendFails`, `PayloadFails` treat the
claimed rows in order; `Requeue` and `RequeueFlags` are the two statements of
`requeue`. Clocks are the thresholds passing: `TtlPasses`, `SweepTimedOut`,
`CleanupDevice`; the last two wait 15 and 10 minutes, longer than any drain
lives, and that is stated in their guards. `sweeping` is the hub's sweep timer:
`register` starts it, for this device or for another (`OtherRegisters`), and a
restart of the server leaves it stopped until then.

### HubPresence

Each async function is a process whose program counter names the await it is
at: register, a push per carrier, a declaration by the timer and one by the
sweep, a suspension. Socket states are the `readyState`s. One timing
assumption is made, and named (`HandlersEnded`): a grace period
(checkIntervalSeconds x maxMissedPushes, minutes) is longer than a handler or a
declaration takes.

### UpdateRollout

A heartbeat handler goes through `Begin` (everything up to reading the attempt,
one step), `ReadAttempt`, the slot lock (`EnterSlot`, `CountOffers`,
`DecideSlot`), `WriteFrame`, `RecordOffer`, `ReleaseSlot`, or gives up. Clocks
are abstracted to the thresholds they are compared with; `later` holds the rows
stamped after the clock a handler already read. Restrictions: one served
version, one administrator operation at a time (each is two steps).

### BanSync

The server's wanted set and the firewall's rules per target; deltas travel in
heartbeat and config frames. Three writers (ban worker, resync, purge) hold
`fwApplyMu`; heartbeats read the firewall without it, so a report may see a
flush half done. `Appends` distinguishes the backends that add one rule per
BanIP from the ones with sets, and `Unsupported` are the entries the backend
refuses for good (IPv6 on an IPv4 chain). Any operation, read or statement may
fail; a failing read either ends the resync (`ResyncReadFails`) or is answered
with an empty list and no error (`ResyncReadsNothing`: iptables, ipset, nftables
and firewalld), and the resync goes on and reports success. Sessions drop; the
agent restarts over the rules it left, an earlier one may have left several
rules of an entry (`MaxLeft`), and the guard's protected addresses change
(`GuardRefreshes`). `damaged` and `excused` are history: what a writer's read or
operations missed, and the unsafe entries the purge cannot answer for.
Restriction: targets are compared as wholes (no overlapping ranges).

### AgentGate

Connections and HTTP pushes that claim the uuid of one device, each with the
key of its process. A check goes through the reads of `checkAgentUpgrade`
(key, hub, binding), `ensureAgentBinding` (`BindingRead`, `Claim`, `Reread`) and
`handlePush` (`Insert`, `Refresh`, `Answer`) one await at a time; `here` and
`from` are what the conditional UPDATEs compare with. An administrator's
request writes the table in one step and reaches the hub in a later one.
'suspended' stands for 'refused' too. `writer` and `applied` are history: they
tell a key whose last change also was the last the hub heard of (`Settled`).

### BanLedger, BanLifecycle, RemoteBlocklist

`BanLedger` is what the table promises to the parts that read it: a ban is
opened once, may be widened to the global scope, is closed once and for good,
and no two open bans share a target and a scope. `BanLifecycle` and
`RemoteBlocklist` implement it (IsLedger), with the rows as the ledger, their
`is_active` as `open`; expiry, exclusions, entries and everything in progress
are hidden.

In `BanLifecycle` a request is the sequence of SQL statements of its function:
what it read is kept in its `call` and written by id later. The advisory lock of
a target is held from the checks to the write, as the transaction does, and the
unique index is what refuses a second active row. Time is the passing of an
expiry (`Elapse`) and of the engine's window (`WindowSlides`). The engine's
cycle reads its candidates, the covering bans and the whitelist in three steps
and then inserts. Failures count by their agents' time stamps: `fresh` are those
stamped up to now that are in the window and newer than the lift watermark,
`ahead` those stamped up to five minutes ahead of the server's clock, which a
deactivation leaves above its watermark. `since` and `led` are history: failures
received and stamped since the last global deactivation, and those that were
ahead at it.

`RemoteBlocklist` has one list of either kind. A sync is fetch, time stamp,
upsert chunk by chunk, prune (URL lists only), reconciliation (lift, select,
lookup, insert) and finish; nothing keeps two of them apart, an obli.tools list
without its key is not synced at all, and any operation may end with an error
after any of its statements (`Fails`). Time stamps are kept as comparisons:
`kept` of an entry are the syncs whose time stamp is not later than its
`last_seen`, `older` of a sync those whose time stamp is not later than its own.
The lookup of `createRemoteBans` and the unique index at its insert are two
steps.

### RouterSync

A push decides (`PushCheck`), connects and adds or removes; a full sync reads the
list, the entries with their comments and the delta, and then adds and removes
one by one. An entry is tagged (the server's) or the operator's; `ids` are the
entries an operation read that are still the same. A connection may fail before
any command. The router refuses some addresses (`Refused`: IPv6 in
`/ip/firewall/address-list`), which ends the operation. A print that times out
does not close the connection: its answer is `due`, and whatever command is sent
next may take it for its own (`Answers`), leaving its own due in turn. A `!done`
that follows a `!trap` is assumed to arrive with it.

## 3. Runs

| Run | Configuration | What it shows |
|---|---|---|
| `event_queue` | capacity 3, batches of 2, 2 watchers, 4 events, 2 sessions | no event lost unseen, drops counted once, the oldest dropped first, order kept and duplicates only across sessions (InOrder), every event settles |
| `command_queue` | 2 types, 2 drains, 2 rows, 2 channels, 1 restart | one outstanding command per type, frames written at most once, results final, every restart or resync closed while the sweep timer runs |
| `command_uninstall_cleanup` | uninstall only, 2 drains | **violated**, see section 7 |
| `hub_presence` | 2 sockets, 2 connections, 1 fault, 1 HTTP push | one channel, no timer while connected, no incident forgotten |
| `hub_presence_live` | 1 socket, 2 connections, a restart, or suspension, approval and deletion | deleted and suspended agents lose their channel, absence is declared, presence recovers and is shown |
| `update_rollout` | 2 devices (one on WebSocket, one on HTTP), cap 1, budget 1, 1 event | slots beyond the cap are exactly the accounted ones, success is final |
| `update_rollout_live` | the same, faults only | every waiting agent is offered, every updated agent recorded |
| `ban_sync` | 2 targets (one that is or becomes unsafe, one the backend refuses), appending backend, up to 2 rules left over, 1 change, 1 resync, 1 fault | no lost wake-up, exact resync, purge lasts, the firewall converges to the wanted bans that guard and backend accept |
| `agent_gate` | 2 keys, 2 connections, 2 administrators, 2 changes, 1 push or fault | a revoked key has no channel, configuration goes to an approved device and, once the heartbeat found or made a binding, to the key of that binding, an entitled agent gets in |
| `ban_lifecycle` | 1 address, 2 tenants, 1 application, 2 requests, 1 failure | the table implements BanLedger, a tenant closes only its own bans, a lift holds but for failures stamped ahead of it, an attacker is banned |
| `remote_blocklist` | 2 addresses, 2 syncs, 2 overlaps, 1 administrator, 1 change, 1 failing statement, both kinds of list | the table implements BanLedger; once syncs no longer overlap, bans follow entries and entries follow the source |
| `router_sync` | 3 addresses (one refused), 2 pushes, 2 full syncs, 2 changes, 1 fault | a needed address is removed only by an overtaken decision or by a late listing, operators' entries stay, the list converges unless it is to hold a refused address |

Deadlock checking is off where the system may really stop: all commands closed
and the agent uninstalled, the agent away, nothing left to do and the bounds
spent.

The MC modules restrict some instances to keep them in reach, without leaving
out a behaviour but by symmetry or by the choice of the start:
`MCCommandQueue` starts the second, interchangeable drain only while the first
runs and restarts the server only during a drain or an acknowledgement (at any
other time a restart is a disconnection and stops the sweep timer);
`MCHubPresenceLive` has a restart or administrators' changes, not both;
`MCBanSync` starts with an empty firewall, or with two rules of an entry the
guard now refuses, and changes lead to the other states; in `MCBanLifecycle`
created bans may expire (one that never does behaves like one whose expiry has
not passed yet), and an automatic ban, of five minutes at least, outlasts the
lead of a clock, of five at most; the source of `MCRemoteBlocklist` starts
with one entry; in `MCRouterSync` changes are about one address, the second is
enforced throughout and the refused one may only be lifted; `MCAgentGate` takes
the second connection or administrator only while the first is in use, starts
with the process of one key, and starts bound and approved in strict mode,
without a row in tenant mode.

### Why the bounds are enough to see the hard cases

* `event_queue`: four events and a capacity of three overflow both on `Push`
  and on `Requeue`; batches of two make a flush take two rounds and let it
  exceed its snapshot; two watchers leave a signal pending behind another; two
  sessions let a batch be written in one and again in the next.
* `command_queue`: two rows are a command and its successor of the same type,
  or two types; two drains are the most a device has; two channels are a
  channel and the one replacing it.
* `hub_presence`: two sockets are a replaced channel with its late close event
  and its successor; one fault is a failing statement or a
  restart. With one socket the agent still goes and returns
  (`hub_presence_live`).
* `update_rollout`: two devices compete for a cap of one; one is
  served over its channel and the other over HTTP, so their handlers overlap in
  every way; one event puts a request, freeze,
  failure, slow frame or restart between any two steps.
* `ban_sync`: one frame each way may be arbitrarily stale, and a mailbox still
  unapplied while the next report is taken is reached with it; the targets are
  independent of each other but for guard and backend, hence one that may be
  unsafe and one that is refused. Two left rules are one more than an UnbanIP
  deletes.
* `agent_gate`: two keys are a machine given a new one, or a clone; two
  administrators let the hub steps of two requests overtake each other, or a
  release meet a suspension; two connections are one that passed the gate and
  the one it meets in `register`.
* `ban_lifecycle`: no operation relates two addresses, and two requests, the
  expiry job and the engine meet on the one. The starting tables give
  two requests something to promote, lift, withdraw or extend. One failure is
  the threshold, so that a lift meets a cycle that already counted it, or a
  failure stamped ahead of it.
* `remote_blocklist`: one change between any two steps of two overlapping syncs
  is an edit, a toggle, a lift, a foreign ban or a change of the source, and one
  error may end any operation; the second address is there to be dropped while
  the first stays. With two overlaps a sync prunes an entry the source serves.
* `router_sync`: an operation on one address does not look at another, except
  through a late listing, for which the second, enforced one is there; two
  changes are a ban and its lift, or a lift and a ban of another scope, each
  with a push that may be late.

## 4. Fairness

* `EventQueue`: weak fairness of each goroutine (they run); strong fairness of
  leaving on a closed `done` channel, because a `select` picks among ready
  cases at random and the case stays ready.
* `CommandQueue`: drains run on, time passes, the sweep timer fires while it
  runs. Nothing is assumed of the agent or of the channels, and so nothing makes
  the timer run after a restart: EveryCommandCloses supposes that it does.
* `HubPresence`: handlers run on, upgrades and close events are handled, timers
  and the sweep fire, a connected agent goes on sending heartbeats. Nothing
  makes an agent connect or stay.
* `UpdateRollout`: heartbeats keep coming, handlers run on, thresholds pass,
  the cleanup job runs, an update that started ends with a restart, an
  administrator's operation is completed. `HeartbeatStep` leaves out the
  failures.
* `BanSync`: heartbeats and answers keep coming, goroutines run on; strong
  fairness of taking `fwApplyMu`, since Go's mutexes do not starve a waiter.
  Faults, changes and resyncs are bounded and not fair.
* `AgentGate`: a running process keeps reconnecting (`runCmdWS` redials for
  ever), checks, close events and administrators' requests run on. Nothing makes
  a process start or an agent send heartbeats.
* `BanLifecycle`: the engine's timer fires and its cycle runs on. Nothing is
  assumed of requests or of the expiry job.
* `RemoteBlocklist`: the timer fires, syncs and requests run on. Errors, changes
  and overlaps of syncs are bounded and not fair: Converges and Mirrors are about
  a list whose syncs stop failing and, for a URL list, overlapping.
* `RouterSync`: operations run on (every command has a timeout), the hourly
  reconciler fires. Failing connections and timeouts are bounded and not fair.

## 5. What is proved

Every safety invariant and every action property of the passing runs is a
theorem, and so is that the detailed specifications of the bans implement
`BanLedger`. The theorems hold for every value of the constants, from the
assumptions named in the modules, which TLC evaluates on every run:

| Assumption | What it says |
|---|---|
| `QueueAssumption`, `BanSyncAssumption`, `CommandAssumption`, `RolloutAssumption`, `BoundsAreNaturals` | sizes and bounds are naturals, capacities are not zero, the targets are finitely many and the refused ones among them, the command types are those of the code, the devices of the fleet are finite |
| `CarriersDiffer`, `ConstantsAssumption` of `AgentGate` and `RouterSync` | marker values are not members of the sets they extend, kinds of processes do not overlap |
| `ConstantsAssumption` of `BanLifecycle` | 'global' and 'system' are not tenants, applications are not called 'manual' or 'auto', the threshold is not zero |
| `StartAssumption` of `BanLifecycle` | the table at the start holds active rows that were never lifted, no two of one target and scope, and a row of one tenant is a manual ban that tenant made (what `create` inserts) |

**EventQueue.** `TypeCorrect` includes the bound on the queue; it rests on the
lemmas `TrimKeepsSuffix` and `PopSplits` about what trimming and popping leave.
`HandshakeHolds` and `DropsAccounted` come from `AccountingInv`, the conjunction
of TypeOK, Handshake and DropAccounting. DropAccounting alone is not inductive:
that a confirmed count was reported needs to know that the frame the writer
holds is the one the flush waits for, that its result was not posted before,
and that no frame is in the writer's hands outside `sendSync`; that is
Handshake, which is inductive with the types.

`NothingLostSilently` is inductive only with `DeliveryInv`: it adds `PumpInv`
(what the pump has drained is empty except between its two steps) and
`HandedOver` (when the flush is told its frame is written, the events of the
batch are among the written ones; without it a batch could be let go of before
it was). `DeliveredInOrder` is the longest proof. InOrder speaks of the order
within each place and among the written events, and each hand-over moves events
from one place to the next, so the invariant orders the places as well: `OrderInv`
(whatever is further along is older, and `Requeue` puts a failed batch back
before the newer ones) and `LostInv` (a drop is older than everything queued;
it may be younger than the batch in hand, but then the queue is full and the
batch cannot come back), with the types, Handshake and PumpInv in `QueueInv`.
`SocketInv` is about what was written: a frame not written yet is the batch in
hand or, while its session closes, a batch already requeued (`FrameInv`), what
is on its way is newer than everything written or was written before
(`FreshInv`), and then in an earlier session (`SessionInv`). The lemmas
`ToSetConcat`, `ToSetCut`, `SortedConcat`, `SortedCut`, `SortedAppend` say
what concatenating and cutting sequences does to their elements and order.

**CommandQueue.** `QueueInv` is what claim's transaction is for: OneOutstanding,
`RowsInv` (status and `finished` agree), `DrainInv` (what a drain holds at each
place of its code, and that it holds no two rows of one type) and `Disjoint` (no
row is held by two drains). OneOutstanding alone is not inductive: a requeue
makes rows unfinished again, and that it respects the index needs to know that
the rows of one drain have different types. `CommandsRunOnce` adds `OnceInv`: a
row that is queued, or held by a drain, has not been written, and a written
frame is in one place only (on its way, waiting, running, or run). It needs
`Disjoint`: two drains holding a row would write it twice. `ResultsStay` is
shown with the types and `QueueInv`: a claim that commits late holds only rows
that were queued or expired meanwhile, and the other statements name the
statuses they change. `NextId` and `Oldest` choose a least row; `LeastId` shows that there is
one.

**BanSync.** Five invariants, each inductive relative to the ones before it:

* TypeOK;
* NoLostWakeup is inductive with the types: a delta that does not wake the
  worker is empty after the filter and leaves the mailbox as it was;
* `MutexInv` (a writer applies exactly while it holds `fwApplyMu`);
* `DifferenceInv` (while a resync applies and is not `damaged`, every entry has
  at most one rule and what is left to do is the difference between the rules and
  the list) and `SupportInv` (an entry the backend refuses has no rule), from
  which `ResyncIsExact` follows when nothing is left. It needs `MutexInv`: no
  other writer moves the rules meanwhile. A resync is damaged when it read an
  empty list for a failed one, when one of its operations failed, or when it
  found two rules of an entry;
* `FilteredInv` (no unsafe entry in the mailbox or in any writer's hands, but for
  those that became unsafe after the filter) and `PurgeInv` (an unsafe entry that
  is not excused has at most one rule, and what the purge has not lifted is on
  its list), from which `PurgeLasts` follows. They do not need the mutex: the
  other writers can only lift unsafe entries.

**HubPresence.** OneChannel, TimerMeansAway and DeletedHasNoChannel are shown
inductive together, with the types (`ChannelInv`), since they fail or hold by the
same steps, the ones that open a socket or arm the timer. The lemma
`NoOpening` disposes of most actions: only `Register` opens a socket, and every
other step can only close it, forget it or leave the channel alone.
`NoOutageForgotten` takes `OutageInv`: ChannelInv, since an incident is opened
only by declarations that look at the channel again afterwards, and
`UndeclaredInv` (an agent not approved yet has no incident and no declaration
about to raise one), without which an approval could bring a forgotten incident
into force. The lemma `ClosersKept` disposes of the processes at any other place
than those that close the incident; the ones at such a place are treated one
by one: they close it, or leave another to do so.

**AgentGate.** `RevokedStaysOut` rests on `KeyInv`: an open channel is the one the
hub holds (`LinkInv`), the last writer of a key has yet to tell the hub exactly
what it wrote (`OpInv`, `DeletedInv`), and a connection of a revoked key that is
still at the gate or upgrading finds its key among the hub's revoked ones
(`OutInv`; RevokedIsOut speaks only of open channels, and an upgrade older than
the revocation would open one). `ConfigGoesToTheOwner` rests on `OwnerInv`: a
check belongs to the connection that started it (`CheckInv`), only a row that
exists is claimed and under strict binding only an unbound one (`ClaimInv`), and
what ServedIsOwner says at the answer already holds from the verdict on
(`ServedInv`). `SockSteps`, `RowSteps` and `OtherChecks` reduce the actions to
the few ways in which they move a connection, the row or a check.

**BanLifecycle and RemoteBlocklist.** `TypeInv` adds to the types that the rows
a request is about to exclude exist. `TableSteps` reduces every action to
keeping the table, closing, opening or widening rows, with the conditions each
one checked; the theorems use only that. `TenantsLiftTheirOwn` takes `OwnInv`: a
row of one tenant is that tenant's manual ban (`LocalInv`), and what a request in
progress is about to insert or close was its own when it was read, which
promotion and other requests do not change (`CallInv`). `ImplementsLedger` maps
each kind of step to a step of `BanLedger` or a stutter. `LiftsHold` takes
`MarkInv` (what counts of an address is at most what was received and stamped
since its last deactivation or was ahead at it, and the candidates of a cycle
have a threshold of these or were lifted since it started). `RemoteKeepsLedger`
does the same for the remote lists (`RemoteRows`, `RemoteSteps`): whatever their
lookup saw, the index lets them open a ban only where no active global one of
the target is, and they never reopen one.

**RouterSync.** Both action properties follow from `SyncInv`, one record of facts
about each operation by its place: entries read with their comments carry the
tag as long as they are the same entries (`Reads`), and what an operation has
decided to remove was not enforced or came to be since (`Decided`), unless it
comes from an answer gone astray, which only a full sync without comments has.
Most of the proof is that a change of bans, exclusions or whitelist marks what it
makes enforced as `late` for the operations that have decided, and that an
answer to an earlier command is taken only where one was given up.

**UpdateRollout.** The handler that is inside the slot lock takes the head off
the lock's queue when it leaves, so type correctness already needs `LockInv`
(the handler inside the lock is the queue's head); `TypeCorrect` is the typing
half of their conjunction. `SucceededIsFinal` follows from the types, action by
action. `CapIsAccounted` rests on `CountInv` (what a handler's count of the
window left out was stamped after the handler read its clock) and `BackedInv`
(the slots that are not marked `unbacked` number at most the cap), which is
CapAccounted in another form, by the library's facts about the cardinality of
finite sets. `QuietSteps` gathers the actions that add no slot; the ones that
grant a slot or count an offer are treated one by one.

The strengthenings were checked with TLC on the instances of the runs before
they were proved.

## 6. What is only model-checked

* All liveness (EveryEventSettles, EveryCommandCloses, SuspendedIsDisconnected,
  AwayIsDeclared, OnlineRecovers, OnlineShownUp, EveryAgentOffered,
  UpdateRecorded, AgentAdmitted, AttackerIsBanned, Converges, Mirrors): the
  prover does not handle fairness.
* The finding's run (section 7): CleanupOnlyAfterWrite does not hold.
* That the properties notice faults: the mutants of each run.

## 7. Findings and observations

Finding (a run that is violated): `command_uninstall_cleanup`. A legacy
uninstall is finished when claimed, so a second one may be queued before its
frame fails. `requeue` then violates the partial unique index and throws;
`uninstall_commanded_at` stays set and the cleanup job deletes a device that was
never told (`agentCommand.service.ts:336`, against its comment at 329).

Behaviours met while modelling that have no run of their own; where a property
would fail on one, its statement names the exception:

* The offline sweep emits its 'down' after an await without looking at the
  channel again; a heartbeat's 'up' in between is overwritten and a connected
  agent stays shown as down (`obliguardHub.service.ts:568`, against the comment
  at 565; OnlineShownUp excepts it).
* Offers are counted up to a clock read before the count, the reservations are
  added after it; an offer counted and released in between is in neither
  (`agentUpdateRollout.service.ts:91`, against its header at 35). CapAccounted
  states what does hold.
* Two requests on one API key (disable, enable) may reach the hub in the other
  order than the table: the hub then refuses an active key until it is disabled
  and enabled again or the server restarts, or admits a disabled one
  that had passed the gate (`agentKeys.controller.ts:84`; `Settled` excepts it).
* A heartbeat of the old key that read the row after a release claims the
  binding again, although its channel is being closed
  (`agent.controller.ts:718`).
* A heartbeat that read an unbound device while it was suspended, or that lost
  the race for an unbound one and read it again after its release, acts for
  the device without claiming it, and another key may claim it before the answer
  (`agent.service.ts:1473`, `1488`). Met in the proof of ServedIsOwner, which
  speaks of heartbeats that found or made a binding.
* A tenant's Lift of its own ban, read before Default promotes it and written
  after, lifts it for everyone (`ban.service.ts:830`, against its comment at
  822; TenantLiftsOwn speaks of whose ban it was).
* A Lift during an engine cycle that already counted the failures is followed by
  a new ban of the same address (LiftHolds excepts that cycle). So is one of an
  address whose failures an agent with a fast clock stamped up to five minutes
  ahead (`agent.service.ts:307`): they are newer than `lifted_at`, although
  `ban.service.ts:1483` says that failures before a lift do not count. LiftHolds
  counts them separately.
* The expiry job closes by id: an external ban extended between its SELECT and
  UPDATE is closed anyway. A push may extend a row lifted since it was read,
  which then stays lifted. A row that expires between `expireStale` and the
  insert makes the request fail as a duplicate.
* `syncOblitools` stamps `last_sync_at` at its end: what the source changed after
  the fetch is not asked for again (Mirrors is about URL lists only). Without an
  `api_key` it returns before the reconciliation too, so that the bans of such a
  list stay as they are (`remoteBlocklist.service.ts:622`).
* Overlapping syncs of a URL list may drop entries the source serves: `last_seen`
  is set to a time stamp taken before the upserts, so a slower sync sets it back
  and the prune of the other one takes it for old
  (`remoteBlocklist.service.ts:749` to `772`). The entry's disabled flag is lost
  with it. Mirrors and Converges are about lists whose syncs stop overlapping.
* `pushNewBans` skips a ban committed after its read with an earlier time.
* Enforcement turned off, or the list deleted, while a sync reconciles brings
  its bans back, until the next reconciliation in the first case and for good
  in the second (`remoteBlocklist.service.ts:298`).
* A MikroTik unban is checked, then removed by address: a ban created in between
  is missing until the hourly reconciliation (NeededIsKept excepts it), and an
  operator's entry of that address goes with it. A listing that times out leaves
  its answer on the connection; `unbanIP` takes it for its own print and removes
  every entry in it (`routerosClient.ts:254`, `370`), until the next
  reconciliation adds them again. An address the router refuses ends every full
  sync before its removals (`routerosClient.ts:359`,
  `mikrotikBanSync.service.ts:384`): what was lifted without a push, or whose
  push failed, stays on the router (Converges excepts it). Deleting a tenant purges the
  router first: a push in between leaves entries nobody removes.
* `requeue` resets rows and flags in two statements: another drain may deliver
  the uninstall in between, and the device is then flagged pending for a
  command that was delivered (`agentCommand.service.ts:342`).
* The command sweep is started by `register` only: after a restart of the server
  without any agent connected no command expires or times out
  (`obliguardHub.service.ts:243`; EveryCommandCloses supposes the timer).
* `claim` updates by id rows it selected; the sweep may expire one in between,
  and it is delivered late (`agentCommand.service.ts:294`).
* An 'up' may be sent without its 'down' when `recoverOnline` runs between the
  raise and the second look of `declareOffline` (`obliguardHub.service.ts:473`).
* A suspension between `declareOffline`'s SELECT and its raise leaves an
  incident that only the next connection closes; `recoverOnline` swallows a
  failing statement, and the incident then stays until the next one.
* `requestUpdate` is two statements: a heartbeat in between sees the new request
  with the spent budget and clears it (`agent.service.ts:2717`). An offer
  counted after a freeze revives the cancelled attempt. `setDeviceUpdating`
  updates by id and may reopen an attempt that succeeded (SucceededStays names
  this exception).
* On appending backends an entry added twice survives one removal, so a resync
  may report success and leave it (ResyncExact excludes this: `damaged`); the
  next heartbeats remove it (Converges). The start-up purge lifts one rule of an
  unsafe entry too (`cmd_ws.go:1080`): a second one stays enforced as long as the
  server wants it (PurgedStaysClean: `excused`).
* Four backends answer a failed listing with an empty list and no error
  (`firewall_iptables.go:169`): a resync then adds every entry again, removes
  none and reports success.
* A list filtered by the guard before an address became protected is applied
  after it; nothing looks for it again before the next start.
* An entry the backend refuses (IPv6 without support) is sent again with every
  heartbeat, for ever.
* A delta already in the ban worker's hand is applied after the resync meant to
  supersede it; again the next heartbeat corrects it.
* A flush may hand over up to one batch, less one event, beyond its snapshot.

## 8. What is not modelled, and why

* Out of scope: I/O with external services (notifications, reputation, GeoIP,
  Microsoft 365, single sign-on), request-local CRUD and resolution (users,
  permissions, settings, dashboards, audit), the web client, installers, build
  tools, byte-level framing and log formats.
* Address arithmetic (ranges, canonical forms, protected addresses): targets are
  opaque, and the unsafe ones and those a backend or router refuses are sets.
* Parts of modelled components: the upload of local bans to obli.tools, the
  MikroTik log poller and import, range containment in bans and whitelist,
  the burst reports of the engine (they only notify).
* pushAndWait and rate-limit policies: small and sequential; an answer is
  matched by id in one map and a timer removes it.
* The rest of the server and the web client are most of the lines of the
  repository and hold no protocol: handlers that read or write one row, SQL
  that filters and aggregates, and rendering.

## 9. Plan

All components with concurrent behaviour of their own are modelled, and their
safety and action properties are proved. What is left:

1. Lemmas towards liveness that need no fairness: which actions only ever move
   an operation forward, in `EventQueue` and `CommandQueue`.
2. Facts the proofs already contain and a reader may want by name (a claimed row
   is never held by two drains, the writer's mutex of `BanSync`).
