-------------------------- MODULE AgentGateProofs --------------------------
(***************************************************************************)
(* Theorems about AgentGate, for every set of keys, connections, HTTP      *)
(* pushes and administrators' requests: type correctness, that a revoked   *)
(* key keeps no channel, and that configuration goes to the key the device *)
(* is bound to.                                                            *)
(***************************************************************************)
EXTENDS AgentGate, TLAPS

\* Requests about a key name it, requests about the device name none.
AdminInv ==
    \A a \in Admin :
        /\ admin[a].op \in {"disable", "enable"} => admin[a].key \in Key
        /\ admin[a].op \in {"none", "device"} => admin[a].key = None
        /\ admin[a].pc = "write" => admin[a].op \in {"disable", "enable"}

TypeInv == TypeOK /\ AdminInv

\* The only open channel is the device's.
LinkInv == \A s \in Socket : sock[s].st = "open" => byDevice = s

\* The last writer of a key has yet to tell the hub what it wrote.
OpInv ==
    \A k \in Key : \A a \in Admin :
        writer[k] = a /\ admin[a].pc = "hub" /\ admin[a].key = k =>
            (admin[a].op = "disable" <=> keys[k] # "active")

\* The request that deleted a key writes it no more.
DeletedInv ==
    \A k \in Key : \A a \in Admin :
        keys[k] = "deleted" /\ writer[k] = a => ~ (admin[a].pc = "write" /\ admin[a].key = k)

\* RevokedIsOut, with the connections that may still register.
Out(k) ==
    keys[k] # "active" /\ Settled(k) =>
        \A s \in Socket :
            sock[s].key = k =>
                /\ sock[s].st # "open"
                /\ sock[s].st \in {"gate", "upgrade"} => k \in revoked
OutInv == \A k \in Key : Out(k)

KeyInv == LinkInv /\ OpInv /\ DeletedInv /\ OutInv

\* A check belongs to the connection that started it as long as that lives.
Belongs(s) ==
    /\ sock[s].st # "none" /\ check[s].pc # "idle" => check[s].key = sock[s].key
    /\ sock[s].st = "gate" => check[s].pc \in {"hub", "read", "claim", "reread"}
    /\ sock[s].st = "upgrade" => check[s].pc = "idle"
CheckInv ==
    \A s \in Socket : /\ sock[s].st # "none" => sock[s].key \in Key
                      /\ Belongs(s)

\* No row, no binding; only a row that is still there is claimed, and under
\* strict binding only an unbound one.
RowInv == row.status = "none" => row.key = None
ClaimInv ==
    \A c \in Caller :
        check[c].pc = "claim" => /\ check[c].here => row.status # "none"
                                 /\ binding = "strict" => check[c].from = None

\* What ServedIsOwner says at the answer, from the verdict on.
Served(s) ==
    /\ check[s].pc = "answer" => row.status = "approved"
    /\ check[s].pc \in {"refresh", "answer"} /\ binding = "strict" /\ check[s].from # None
         => row.key = sock[s].key
ServedAt(s) == sock[s].st = "open" => Served(s) \/ \E a \in Admin : Shuts(a, s)
ServedInv == \A s \in Socket : ServedAt(s)

OwnerInv == LinkInv /\ CheckInv /\ RowInv /\ ClaimInv /\ ServedInv
-----------------------------------------------------------------------------
(* What the operators return. *)

LEMMA Fields ==
    /\ \A r \in SockRec : /\ r.st \in {"none", "gate", "upgrade", "open", "shut"}
                          /\ r.key \in Key \cup {None} /\ r.lost \in BOOLEAN /\ r.beat \in BOOLEAN
    /\ Closed \in SockRec /\ Closed.st = "none" /\ Closed.key = None
    /\ Idle \in CheckRec /\ Idle.pc = "idle" /\ Idle.from = None
    /\ AdminIdle \in AdminRec /\ AdminIdle.pc = "idle" /\ AdminIdle.op = "none"
    /\ AdminIdle.key = None
    /\ NoRow \in RowRec /\ NoRow.status = "none" /\ NoRow.key = None
BY DEF SockRec, CheckRec, AdminRec, RowRec, Closed, Idle, AdminIdle, NoRow

\* disconnectWhere closes at most the device's channel.
LEMMA ShutFields ==
    ASSUME sock \in [Socket -> SockRec], NEW s \in Socket
    PROVE  /\ Shut(s) \in [Socket -> SockRec]
           /\ \A q \in Socket :
                /\ Shut(s)[q].key = sock[q].key
                /\ Shut(s)[q].st = IF q = s /\ sock[q].st = "open" THEN "shut" ELSE sock[q].st
BY DEF Shut, SockRec

LEMMA DisconnectedFields ==
    ASSUME sock \in [Socket -> SockRec], byDevice \in Socket \cup {None}, NEW cond \in BOOLEAN
    PROVE  /\ Disconnected(cond) \in [Socket -> SockRec]
           /\ \A q \in Socket :
                /\ Disconnected(cond)[q].key = sock[q].key
                /\ Disconnected(cond)[q].st =
                     IF cond /\ byDevice = q /\ sock[q].st = "open" THEN "shut" ELSE sock[q].st
<1>1. CASE byDevice # None /\ cond
  BY <1>1, ShutFields DEF Disconnected
<1>2. CASE ~ (byDevice # None /\ cond)
  <2>1. \A q \in Socket : q # None
    BY ConstantsAssumption
  <2> QED BY <1>2, <2>1 DEF Disconnected
<1> QED BY <1>1, <1>2
-----------------------------------------------------------------------------
(* Type correctness. *)

LEMMA InitTypes == Init => TypeInv
BY ConstantsAssumption, Fields DEF Init, TypeInv, TypeOK, AdminInv, RowRec, NoRow

\* A verdict changes the connection and the check of its caller.
LEMMA AcceptTypes ==
    ASSUME TypeOK, NEW c \in Caller, NEW b \in Key \cup {None}, Accept(c, b)
    PROVE  sock' \in [Socket -> SockRec] /\ check' \in [Caller -> CheckRec]
<1>1. CASE InGate(c)
  BY <1>1, Fields DEF TypeOK, Accept, InGate, SockRec
<1>2. CASE ~ InGate(c)
  BY <1>2, Fields DEF TypeOK, Accept, CheckRec
<1> QED BY <1>1, <1>2

LEMMA RefuseTypes ==
    ASSUME TypeOK, NEW c \in Caller, Refuse(c)
    PROVE  sock' \in [Socket -> SockRec] /\ check' \in [Caller -> CheckRec]
<1>1. check' \in [Caller -> CheckRec]
  BY Fields DEF TypeOK, Refuse
<1>2. CASE InGate(c)
  BY <1>1, <1>2, Fields DEF TypeOK, Refuse, InGate
<1>3. CASE ~ InGate(c)
  <2>1. (byDevice = c) \in BOOLEAN
    OBVIOUS
  <2>2. Disconnected(byDevice = c) \in [Socket -> SockRec]
    BY <2>1, DisconnectedFields DEF TypeOK
  <2> QED BY <1>1, <1>3, <2>2 DEF Refuse
<1> QED BY <1>2, <1>3

LEMMA SocketTypes ==
    ASSUME TypeOK, NEW s \in Socket,
           \/ \E k \in Key : Connect(s, k)
           \/ Heartbeat(s) \/ SocketStep(s) \/ NoHeartbeat(s) \/ Drop(s)
    PROVE  TypeOK'
<1> s \in Caller
  BY DEF Caller
<1>1. ASSUME NEW k \in Key, Connect(s, k)
      PROVE  TypeOK'
  BY <1>1, Fields DEF TypeOK, Connect, SockRec, CheckRec, Closed, Idle, history, bounds
<1>2. CASE Heartbeat(s)
  <2>1. sock' \in [Socket -> SockRec]
    <3>1. sock \in [Socket -> SockRec] /\ sock[s] \in SockRec
      BY DEF TypeOK
    <3>2. [sock[s] EXCEPT !.beat = TRUE] \in SockRec
      BY <3>1 DEF SockRec
    <3>3. sock' = [sock EXCEPT ![s] = [sock[s] EXCEPT !.beat = TRUE]]
      BY <1>2, <3>1 DEF Heartbeat
    <3> QED BY <3>1, <3>2, <3>3
  <2>2. sock[s].key \in Key \cup {None}
    BY DEF TypeOK, SockRec
  <2>3. [Idle EXCEPT !.pc = "read", !.key = sock[s].key] \in CheckRec
    BY <2>2 DEF Idle, CheckRec
  <2>4. check' \in [Caller -> CheckRec]
    BY <1>2, <2>3 DEF TypeOK, Heartbeat
  <2> QED BY <1>2, <2>1, <2>4 DEF TypeOK, Heartbeat, history, bounds
<1>3. CASE AskHub(s)
  BY <1>3, Fields DEF TypeOK, AskHub, CheckRec, history, bounds
<1>4. CASE Register(s)
  <2>1. Disconnected(TRUE) \in [Socket -> SockRec]
    BY DisconnectedFields DEF TypeOK
  <2>2. [Disconnected(TRUE) EXCEPT ![s].st = "open"] \in [Socket -> SockRec]
    BY <2>1 DEF SockRec
  <2> QED BY <1>4, <2>2, Fields DEF TypeOK, Register, history, bounds
<1>5. CASE CloseEvent(s)
  BY <1>5, Fields DEF TypeOK, CloseEvent, history, bounds
<1>6. CASE LostShuts(s)
  BY <1>6, ShutFields DEF TypeOK, LostShuts, history, bounds
<1>7. CASE NoHeartbeat(s)
  BY <1>7, ShutFields, ConstantsAssumption DEF TypeOK, NoHeartbeat, Fault, history
<1>8. CASE Drop(s)
  <2>1. sock' \in [Socket -> SockRec]
    BY <1>8 DEF TypeOK, Drop, SockRec
  <2> QED BY <1>8, <2>1, ConstantsAssumption DEF TypeOK, Drop, Fault, history
<1> QED BY <1>1, <1>2, <1>3, <1>4, <1>5, <1>6, <1>7, <1>8 DEF SocketStep

LEMMA ReadTypes ==
    ASSUME TypeOK, NEW c \in Caller, BindingRead(c)
    PROVE  TypeOK'
<1> DEFINE k == check[c].key
           goes(pc) == /\ check' = [check EXCEPT ![c].pc = pc, ![c].from = row.key, ![c].here = TRUE]
                       /\ UNCHANGED sock
<1>1. k \in Key \cup {None} /\ row.key \in Key \cup {None}
  BY DEF TypeOK, CheckRec, RowRec
<1>2. ASSUME NEW pc \in {"insert", "refresh", "claim"}, goes(pc)
      PROVE  sock' \in [Socket -> SockRec] /\ check' \in [Caller -> CheckRec]
  <2>1. check[c] \in CheckRec
    BY DEF TypeOK
  <2>2. [check[c] EXCEPT !.pc = pc, !.from = row.key, !.here = TRUE] \in CheckRec
    BY <1>1, <2>1 DEF CheckRec
  <2>3. check' = [check EXCEPT ![c] = [check[c] EXCEPT !.pc = pc, !.from = row.key, !.here = TRUE]]
    BY <1>2 DEF TypeOK
  <2> QED BY <1>2, <2>2, <2>3 DEF TypeOK
<1>3. \/ Accept(c, None) \/ Accept(c, k) \/ Refuse(c)
      \/ goes("insert") \/ goes("refresh") \/ goes("claim")
  BY DEF BindingRead
<1>4. sock' \in [Socket -> SockRec] /\ check' \in [Caller -> CheckRec]
  <2> HIDE DEF k, goes
  <2> QED BY <1>1, <1>2, <1>3, AcceptTypes, RefuseTypes
<1> QED BY <1>4 DEF TypeOK, BindingRead, history, bounds

LEMMA CheckTypes ==
    ASSUME TypeOK, NEW c \in Caller, CheckStep(c) \/ Deferred(c)
    PROVE  TypeOK'
<1>1. check[c].key \in Key \cup {None} /\ row.key \in Key \cup {None}
  BY DEF TypeOK, CheckRec, RowRec
<1>2. CASE Deferred(c)
  BY <1>2, RefuseTypes, ConstantsAssumption DEF TypeOK, Deferred, Fault, history
<1>3. CASE Claim(c)
  <2>1. row' \in RowRec
    BY <1>1, <1>3 DEF TypeOK, Claim, RowRec
  <2>2. sock' \in [Socket -> SockRec] /\ check' \in [Caller -> CheckRec]
    <3>1. CASE Accept(c, check[c].key)
      BY <1>1, <3>1, AcceptTypes
    <3>2. CASE /\ check' = [check EXCEPT ![c] = Idle]
               /\ sock' = IF InGate(c) THEN [sock EXCEPT ![c] = Closed] ELSE sock
      BY <3>2, Fields DEF TypeOK, InGate
    <3>3. CASE check' = [check EXCEPT ![c].pc = "reread"] /\ UNCHANGED sock
      BY <3>3 DEF TypeOK, CheckRec
    <3> QED BY <1>3, <3>1, <3>2, <3>3 DEF Claim
  <2> QED BY <1>3, <2>1, <2>2 DEF TypeOK, Claim, history, bounds
<1>4. CASE Reread(c)
  BY <1>1, <1>4, AcceptTypes, RefuseTypes DEF TypeOK, Reread, history, bounds
<1>5. CASE Insert(c)
  <2>1. row' \in RowRec
    BY <1>1, <1>5 DEF TypeOK, Insert, RowRec
  <2> QED BY <1>5, <2>1, Fields DEF TypeOK, Insert, hub, history, bounds
<1>6. CASE Refresh(c)
  <2>1. CASE Refuse(c)
    BY <1>6, <2>1, RefuseTypes DEF TypeOK, Refresh, history, bounds
  <2>2. CASE ~ Refuse(c)
    <3>1. check \in [Caller -> CheckRec] /\ check[c] \in CheckRec
      BY <1>1 DEF TypeOK
    <3>2. [check[c] EXCEPT !.pc = "answer"] \in CheckRec
      BY <3>1 DEF CheckRec
    <3>3. check' \in [Caller -> CheckRec] /\ UNCHANGED sock
      BY <1>6, <2>2, <3>1, <3>2, Fields DEF Refresh
    <3> QED BY <1>6, <3>3 DEF TypeOK, Refresh, history, bounds
  <2> QED BY <2>1, <2>2
<1>7. CASE Answer(c)
  BY <1>7, Fields DEF TypeOK, Answer, hub, history, bounds
<1> QED BY <1>2, <1>3, <1>4, <1>5, <1>6, <1>7, ReadTypes DEF CheckStep

LEMMA BeginsTypes ==
    ASSUME TypeOK, NEW a \in Admin, NEW pc \in {"write", "hub"},
           NEW op \in {"disable", "enable", "device"}, NEW k \in Key \cup {None},
           Begins(a, pc, op, k)
    PROVE  /\ admin' \in [Admin -> AdminRec]
           /\ changes' \in 0..MaxChanges /\ faults' \in 0..MaxFaults
BY ConstantsAssumption DEF TypeOK, Begins, Change, AdminRec

LEMMA AdminTypes ==
    ASSUME TypeOK, AdminInv, NEW a \in Admin, AdminRequest(a) \/ AdminStep(a)
    PROVE  TypeOK' /\ AdminInv'
<1>1. ASSUME NEW k \in Key, ReadKey(a, k)
      PROVE  TypeOK'
  <2>1. (IF keys[k] = "active" THEN "disable" ELSE "enable") \in {"disable", "enable", "device"}
    OBVIOUS
  <2> QED BY <1>1, <2>1, BeginsTypes DEF TypeOK, ReadKey, hub, history
<1>2. ASSUME NEW k \in Key, DeleteKey(a, k)
      PROVE  TypeOK'
  <2>1. row' \in RowRec
    BY <1>2 DEF TypeOK, DeleteKey, RowRec
  <2> QED BY <1>2, <2>1, BeginsTypes DEF TypeOK, DeleteKey, hub
<1>3. ASSUME Release(a)
      PROVE  TypeOK'
  <2>1. row' \in RowRec
    BY <1>3 DEF TypeOK, Release, RowRec
  <2> QED BY <1>3, <2>1, BeginsTypes DEF TypeOK, Release, hub, history
<1>4. ASSUME Suspend(a)
      PROVE  TypeOK'
  <2>1. row' \in RowRec
    BY <1>4 DEF TypeOK, Suspend, RowRec
  <2> QED BY <1>4, <2>1, BeginsTypes DEF TypeOK, Suspend, hub, history
<1>5. ASSUME DeleteDevice(a)
      PROVE  TypeOK'
  <2>1. check' \in [Caller -> CheckRec]
    BY <1>5 DEF TypeOK, DeleteDevice, CheckRec
  <2> QED BY <1>5, <2>1, BeginsTypes, Fields DEF TypeOK, DeleteDevice, hub, history
<1>6. ASSUME WriteKey(a)
      PROVE  TypeOK'
  <2>1. admin' \in [Admin -> AdminRec]
    BY <1>6 DEF TypeOK, WriteKey, AdminRec
  <2>2. keys' \in [Key -> {"active", "disabled", "deleted"}] /\ writer' \in [Key -> Admin \cup {None}]
    BY <1>6 DEF TypeOK, WriteKey
  <2> QED BY <1>6, <2>1, <2>2 DEF TypeOK, WriteKey, hub, bounds
<1>7. ASSUME HubKey(a)
      PROVE  TypeOK'
  <2>1. (admin[a].op = "disable" /\ sock[byDevice].key = admin[a].key) \in BOOLEAN
    OBVIOUS
  <2>2. sock' \in [Socket -> SockRec]
    BY <1>7, <2>1, DisconnectedFields DEF TypeOK, HubKey
  <2>3. revoked' \subseteq Key
    BY <1>7 DEF HubKey, Allowed, TypeOK, AdminInv
  <2> QED BY <1>7, <2>2, <2>3, Fields DEF TypeOK, HubKey, bounds
<1>8. ASSUME HubDevice(a)
      PROVE  TypeOK'
  BY <1>8, DisconnectedFields, Fields DEF TypeOK, HubDevice, history, bounds
<1>9. AdminInv'
  <2>1. \A q \in Admin : admin[q] \in AdminRec
    BY DEF TypeOK
  <2>2. ASSUME NEW pc, NEW op, NEW k, Begins(a, pc, op, k),
               op \in {"disable", "enable"} => k \in Key,
               op = "device" => k = None /\ pc = "hub",
               op \in {"disable", "enable", "device"}
        PROVE  AdminInv'
    <3>1. admin' = [admin EXCEPT ![a] = [pc |-> pc, op |-> op, key |-> k]]
      BY <2>2 DEF Begins
    <3>2. \A q \in Admin : admin'[q] = IF q = a THEN [pc |-> pc, op |-> op, key |-> k] ELSE admin[q]
      BY <3>1 DEF TypeOK
    <3> QED BY <2>2, <3>2 DEF AdminInv
  <2>3. ASSUME NEW k \in Key, ReadKey(a, k) \/ DeleteKey(a, k)
        PROVE  AdminInv'
    BY <2>2, <2>3 DEF ReadKey, DeleteKey
  <2>4. CASE Release(a) \/ Suspend(a) \/ DeleteDevice(a)
    BY <2>2, <2>4 DEF Release, Suspend, DeleteDevice
  <2>5. CASE WriteKey(a)
    BY <2>1, <2>5 DEF WriteKey, AdminInv, AdminRec, TypeOK
  <2>6. CASE HubKey(a) \/ HubDevice(a)
    BY <2>6, Fields DEF HubKey, HubDevice, AdminInv, TypeOK
  <2> QED BY <2>3, <2>4, <2>5, <2>6 DEF AdminRequest, AdminStep
<1>10. TypeOK'
  BY <1>1, <1>2, <1>3, <1>4, <1>5, <1>6, <1>7, <1>8 DEF AdminRequest, AdminStep
<1> QED BY <1>9, <1>10

\* Apart from a restart, only administrators change keys and their requests.
LEMMA OnlyAdmins ==
    ASSUME [Next]_vars, ~ \E a \in Admin : AdminRequest(a) \/ AdminStep(a)
    PROVE  ServerRestart \/ UNCHANGED <<keys, revoked, admin, writer, applied>>
BY DEF Next, SocketStep, CheckStep, Connect, Heartbeat, AskHub, Register, CloseEvent, LostShuts,
       NoHeartbeat, Drop, Push, BindingRead, Claim, Reread, Insert, Refresh, Answer, Deferred,
       StartStop, Approve, vars, hub, history

LEMMA NextTypes == TypeInv /\ [Next]_vars => TypeInv'
<1> SUFFICES ASSUME TypeOK, AdminInv, [Next]_vars PROVE TypeOK' /\ AdminInv'
  BY DEF TypeInv
<1>1. ASSUME NEW h \in Http, NEW k \in Key, Push(h, k)
      PROVE  TypeOK'
  <2>1. [Idle EXCEPT !.pc = "read", !.key = k] \in CheckRec
    BY DEF Idle, CheckRec
  <2>2. check' \in [Caller -> CheckRec]
    BY <1>1, <2>1 DEF TypeOK, Push, Caller
  <2> QED BY <1>1, <2>2, ConstantsAssumption DEF TypeOK, Push, Fault, hub, history
<1>2. ASSUME NEW k \in Key, StartStop(k)
      PROVE  TypeOK'
  <2>1. sock' \in [Socket -> SockRec]
    <3>1. \A s \in Socket : [sock[s] EXCEPT !.lost = TRUE] \in SockRec /\ sock[s] \in SockRec
      BY DEF TypeOK, SockRec
    <3> QED BY <1>2, <3>1 DEF StartStop
  <2>2. running' \in [Key -> BOOLEAN]
    BY <1>2 DEF TypeOK, StartStop
  <2> QED BY <1>2, <2>1, <2>2, ConstantsAssumption DEF TypeOK, StartStop, Change, history
<1>3. ASSUME Approve
      PROVE  TypeOK'
  BY <1>3, ConstantsAssumption DEF TypeOK, Approve, Change, RowRec, hub, history
<1>4. ASSUME ServerRestart
      PROVE  TypeOK'
  BY <1>4, ConstantsAssumption, Fields DEF TypeOK, ServerRestart, Fault
<1>5. ASSUME UNCHANGED vars
      PROVE  TypeOK'
  BY <1>5 DEF TypeOK, vars, hub, history, bounds
<1>6. CASE \E a \in Admin : AdminRequest(a) \/ AdminStep(a)
  BY <1>6, AdminTypes
<1>7. CASE ~ \E a \in Admin : AdminRequest(a) \/ AdminStep(a)
  <2>1. TypeOK'
    BY <1>1, <1>2, <1>3, <1>4, <1>5, <1>7, SocketTypes, CheckTypes DEF Next
  <2>2. ServerRestart \/ UNCHANGED <<keys, revoked, admin, writer, applied>>
    BY <1>7, OnlyAdmins
  <2>3. AdminInv'
    BY <2>2, Fields DEF AdminInv, ServerRestart
  <2> QED BY <2>1, <2>3
<1> QED BY <1>6, <1>7

\* Type correctness of the gate, the binding checks and the requests.
THEOREM TypeCorrect == Spec => []TypeOK
<1>1. Init => TypeInv
  BY InitTypes
<1>2. TypeInv /\ [Next]_vars => TypeInv'
  BY NextTypes
<1>3. TypeInv => TypeOK
  BY DEF TypeInv
<1> QED BY <1>1, <1>2, <1>3, PTL DEF Spec
-----------------------------------------------------------------------------
(* What a step does to a connection. *)

Stays(q) == /\ sock'[q].key = sock[q].key
            /\ sock'[q].st = sock[q].st \/ (sock[q].st = "open" /\ sock'[q].st = "shut")
Closes(q) == sock'[q] = Closed
Enters(q) == /\ \E k \in Key : Connect(q, k)
             /\ sock'[q].st = "gate" /\ sock'[q].key \in Key /\ keys[sock'[q].key] = "active"
Passes(q) == sock[q].st = "gate" /\ sock'[q].st = "upgrade" /\ sock'[q].key = sock[q].key
Opens(q) == /\ Register(q) /\ ~ Refuses(q)
            /\ sock[q].st = "upgrade" /\ sock'[q].st = "open" /\ sock'[q].key = sock[q].key

Moves(q) == Stays(q) \/ Closes(q) \/ Enters(q) \/ Passes(q) \/ Opens(q)

\* Only the sockets' own steps and verdicts do more than close the channel.
LEMMA VerdictMoves ==
    ASSUME TypeOK, NEW c \in Caller, NEW q \in Socket,
           Refuse(c) \/ \E b \in Key \cup {None} : Accept(c, b)
    PROVE  Stays(q) \/ Closes(q) \/ Passes(q)
<1>1. CASE InGate(c) /\ q = c
  <2>1. CASE Refuse(c)
    BY <1>1, <2>1 DEF Refuse, InGate, TypeOK, Closes
  <2>2. ASSUME NEW b \in Key \cup {None}, Accept(c, b)
        PROVE  Passes(q)
    BY <1>1, <2>2 DEF Accept, InGate, TypeOK, Passes, SockRec
  <2> QED BY <2>1, <2>2
<1>2. CASE InGate(c) /\ q # c
  <2>1. sock'[q] = sock[q]
    BY <1>2 DEF Refuse, Accept, InGate, TypeOK
  <2> QED BY <2>1 DEF Stays
<1>3. CASE ~ InGate(c)
  <2>1. CASE Refuse(c)
    <3>1. (byDevice = c) \in BOOLEAN /\ sock' = Disconnected(byDevice = c)
      BY <1>3, <2>1 DEF Refuse
    <3> QED BY <3>1, DisconnectedFields DEF TypeOK, Stays
  <2>2. CASE \E b \in Key \cup {None} : Accept(c, b)
    BY <1>3, <2>2 DEF Accept, Stays
  <2> QED BY <2>1, <2>2
<1> QED BY <1>1, <1>2, <1>3

LEMMA SocketMoves ==
    ASSUME TypeOK, NEW s \in Socket, NEW q \in Socket,
           \/ \E k \in Key : Connect(s, k)
           \/ Heartbeat(s) \/ SocketStep(s) \/ NoHeartbeat(s) \/ Drop(s)
    PROVE  Moves(q)
<1> s \in Caller
  BY DEF Caller
<1>1. ASSUME NEW k \in Key, Connect(s, k)
      PROVE  Moves(q)
  <2>1. CASE q = s
    <3>1. sock'[q].st = "gate" /\ sock'[q].key = k /\ keys[k] = "active"
      BY <1>1, <2>1 DEF Connect, Closed, TypeOK
    <3> QED BY <1>1, <2>1, <3>1 DEF Moves, Enters
  <2>2. CASE q # s
    BY <1>1, <2>2 DEF Connect, TypeOK, Moves, Stays
  <2> QED BY <2>1, <2>2
<1>2. CASE Heartbeat(s)
  BY <1>2 DEF Heartbeat, TypeOK, SockRec, Moves, Stays
<1>3. CASE AskHub(s)
  BY <1>3 DEF AskHub, TypeOK, Moves, Stays, Closes
<1>4. CASE Register(s)
  <2>1. CASE sock[s].lost \/ Refuses(s)
    BY <1>4, <2>1 DEF Register, TypeOK, Moves, Stays, Closes
  <2>2. CASE ~ (sock[s].lost \/ Refuses(s))
    <3>1. /\ Disconnected(TRUE) \in [Socket -> SockRec]
          /\ \A r \in Socket : /\ Disconnected(TRUE)[r].key = sock[r].key
                               /\ Disconnected(TRUE)[r].st = IF byDevice = r /\ sock[r].st = "open"
                                                               THEN "shut" ELSE sock[r].st
      BY DisconnectedFields DEF TypeOK
    <3>2. sock' = [Disconnected(TRUE) EXCEPT ![s].st = "open"] /\ sock[s].st = "upgrade"
      BY <1>4, <2>2 DEF Register
    <3>3. CASE q = s
      BY <1>4, <2>2, <3>1, <3>2, <3>3 DEF SockRec, Moves, Opens
    <3>4. CASE q # s
      BY <3>1, <3>2, <3>4 DEF Moves, Stays
    <3> QED BY <3>3, <3>4
  <2> QED BY <2>1, <2>2
<1>5. CASE CloseEvent(s)
  BY <1>5 DEF CloseEvent, TypeOK, Moves, Stays, Closes
<1>6. CASE LostShuts(s) \/ NoHeartbeat(s)
  BY <1>6, ShutFields DEF LostShuts, NoHeartbeat, TypeOK, Moves, Stays
<1>7. CASE Drop(s)
  BY <1>7 DEF Drop, TypeOK, SockRec, Moves, Stays
<1> QED BY <1>1, <1>2, <1>3, <1>4, <1>5, <1>6, <1>7 DEF SocketStep

LEMMA SockSteps ==
    ASSUME TypeOK, [Next]_vars, NEW q \in Socket
    PROVE  Moves(q)
<1>1. ASSUME UNCHANGED sock
      PROVE  Moves(q)
  BY <1>1 DEF Moves, Stays
<1>2. ASSUME NEW c \in Caller, CheckStep(c) \/ Deferred(c)
      PROVE  Moves(q)
  <2>1. check[c].key \in Key \cup {None} /\ row.key \in Key \cup {None}
    BY DEF TypeOK, CheckRec, RowRec
  <2>2. ASSUME Refuse(c) \/ \E b \in Key \cup {None} : Accept(c, b)
        PROVE  Moves(q)
    BY <2>2, VerdictMoves DEF Moves
  <2>3. CASE BindingRead(c)
    <3>1. Refuse(c) \/ Accept(c, None) \/ Accept(c, check[c].key) \/ UNCHANGED sock
      BY <2>3 DEF BindingRead
    <3> QED BY <1>1, <2>1, <2>2, <3>1
  <2>4. CASE Claim(c)
    <3>1. CASE Accept(c, check[c].key)
      BY <2>1, <2>2, <3>1
    <3>2. CASE sock' = IF InGate(c) THEN [sock EXCEPT ![c] = Closed] ELSE sock
      BY <3>2 DEF InGate, TypeOK, Moves, Stays, Closes
    <3> QED BY <1>1, <2>4, <3>1, <3>2 DEF Claim
  <2>5. CASE Reread(c)
    BY <2>1, <2>2, <2>5 DEF Reread
  <2>6. CASE Insert(c) \/ Answer(c)
    BY <1>1, <2>6 DEF Insert, Answer, hub
  <2>7. CASE Refresh(c)
    BY <1>1, <2>2, <2>7 DEF Refresh
  <2>8. CASE Deferred(c)
    BY <2>2, <2>8 DEF Deferred
  <2> QED BY <1>2, <2>3, <2>4, <2>5, <2>6, <2>7, <2>8 DEF CheckStep
<1>3. ASSUME NEW a \in Admin, AdminRequest(a) \/ AdminStep(a)
      PROVE  Moves(q)
  <2>1. CASE HubKey(a)
    <3>1. (admin[a].op = "disable" /\ sock[byDevice].key = admin[a].key) \in BOOLEAN
      OBVIOUS
    <3> QED BY <2>1, <3>1, DisconnectedFields DEF HubKey, TypeOK, Moves, Stays
  <2>2. CASE HubDevice(a)
    BY <2>2, DisconnectedFields DEF HubDevice, TypeOK, Moves, Stays
  <2> QED BY <1>1, <1>3, <2>1, <2>2
       DEF AdminRequest, AdminStep, ReadKey, DeleteKey, Release, Suspend, DeleteDevice, WriteKey, hub
<1>4. ASSUME NEW k \in Key, StartStop(k)
      PROVE  Moves(q)
  BY <1>4 DEF StartStop, TypeOK, SockRec, Moves, Stays
<1>5. CASE ServerRestart
  BY <1>5 DEF ServerRestart, Moves, Closes
<1>6. CASE Approve \/ (\E h \in Http, k \in Key : Push(h, k)) \/ UNCHANGED vars
  BY <1>1, <1>6 DEF Approve, Push, vars, hub
<1> QED BY <1>2, <1>3, <1>4, <1>5, <1>6, SocketMoves DEF Next
-----------------------------------------------------------------------------
(* Revoked keys. *)

LEMMA LinkKept ==
    ASSUME TypeOK, LinkInv, [Next]_vars
    PROVE  LinkInv'
<1>1. ASSUME NEW s \in Socket, Register(s), byDevice' # byDevice
      PROVE  LinkInv'
  <2>1. /\ sock' = [Disconnected(TRUE) EXCEPT ![s].st = "open"]
        /\ byDevice' = s
    BY <1>1 DEF Register
  <2>2. \A r \in Socket : Disconnected(TRUE)[r].st = IF byDevice = r /\ sock[r].st = "open"
                                                       THEN "shut" ELSE sock[r].st
    BY DisconnectedFields DEF TypeOK
  <2>3. Disconnected(TRUE) \in [Socket -> SockRec]
    BY DisconnectedFields DEF TypeOK
  <2>4. \A r \in Socket : r # s => sock'[r] = Disconnected(TRUE)[r]
    BY <2>1, <2>3
  <2>5. \A r \in Socket : r # s => sock'[r].st # "open"
    BY <2>2, <2>4 DEF LinkInv
  <2> QED BY <2>1, <2>5 DEF LinkInv
<1>2. ASSUME NEW s \in Socket, CloseEvent(s)
      PROVE  LinkInv'
  BY <1>2 DEF CloseEvent, LinkInv, TypeOK, Closed
<1>3. CASE ServerRestart
  BY <1>3, Fields DEF ServerRestart, LinkInv
<1>4. CASE UNCHANGED byDevice
  <2>1. ASSUME NEW q \in Socket, sock'[q].st = "open"
        PROVE  byDevice' = q
    <3>1. Moves(q)
      BY SockSteps
    <3>2. sock[q].st = "open" \/ Opens(q)
      BY <2>1, <3>1, Fields DEF Moves, Stays, Closes, Enters, Passes
    <3>3. CASE sock[q].st = "open"
      BY <1>4, <3>3 DEF LinkInv
    <3>4. CASE Opens(q)
      <4>1. sock'[q] # Closed
        BY <2>1, Fields
      <4>2. sock \in [Socket -> SockRec]
        BY DEF TypeOK
      <4> QED BY <3>4, <4>1, <4>2 DEF Opens, Register
    <3> QED BY <3>2, <3>3, <3>4
  <2> QED BY <2>1 DEF LinkInv
<1>5. \/ \E s \in Socket : Register(s) \/ CloseEvent(s)
      \/ ServerRestart \/ UNCHANGED byDevice
  BY DEF Next, SocketStep, CheckStep, AdminRequest, AdminStep, Connect, Heartbeat, AskHub, LostShuts,
         NoHeartbeat, Drop, Push, BindingRead, Claim, Reread, Insert, Refresh, Answer, Deferred,
         StartStop, Approve, ReadKey, WriteKey, DeleteKey, HubKey, Release, Suspend, DeleteDevice,
         HubDevice, vars, hub
<1> QED BY <1>1, <1>2, <1>3, <1>4, <1>5

\* What is out stays out unless the key is written or the hub told.
LEMMA OutKept ==
    ASSUME TypeOK, [Next]_vars, NEW k \in Key, Out(k),
           keys'[k] # "active" => keys[k] # "active",
           Settled(k)' => Settled(k),
           k \in revoked => k \in revoked'
    PROVE  Out(k)'
<1> SUFFICES ASSUME keys'[k] # "active", Settled(k)', NEW q \in Socket, sock'[q].key = k
             PROVE  /\ sock'[q].st # "open"
                    /\ sock'[q].st \in {"gate", "upgrade"} => k \in revoked'
  BY DEF Out
<1>1. /\ keys[k] # "active"
      /\ sock[q].key = k => /\ sock[q].st # "open"
                            /\ sock[q].st \in {"gate", "upgrade"} => k \in revoked
  BY DEF Out
<1>2. Closed.key # k
  BY Fields, ConstantsAssumption
<1>3. Moves(q)
  BY SockSteps
<1> QED BY <1>1, <1>2, <1>3 DEF Moves, Stays, Closes, Enters, Passes, Opens, Refuses

\* A new request leaves what it does not write as it is.
LEMMA BeginsKeys ==
    ASSUME TypeOK, NEW a \in Admin, NEW pc, NEW op, NEW k, Begins(a, pc, op, k)
    PROVE  /\ admin[a].pc = "idle"
           /\ admin'[a].pc = pc /\ admin'[a].op = op /\ admin'[a].key = k
           /\ \A q \in Admin : q # a => admin'[q] = admin[q]
BY Fields DEF Begins, TypeOK

LEMMA RequestKeys ==
    ASSUME TypeInv, KeyInv, [Next]_vars, NEW a \in Admin, AdminRequest(a)
    PROVE  OpInv' /\ DeletedInv' /\ OutInv'
<1> USE DEF TypeInv, KeyInv
<1>0. \A k \in Key : k # None
  BY ConstantsAssumption
<1>1. ASSUME NEW k \in Key, ReadKey(a, k)
      PROVE  OpInv' /\ DeletedInv' /\ OutInv'
  <2>1. /\ keys[k] # "deleted" /\ UNCHANGED <<keys, revoked, writer, applied>>
        /\ admin[a].pc = "idle" /\ admin'[a].pc = "write" /\ admin'[a].key = k
        /\ \A q \in Admin : q # a => admin'[q] = admin[q]
    BY <1>1, BeginsKeys DEF ReadKey, hub, history
  <2>2. OpInv' /\ DeletedInv'
    BY <2>1 DEF OpInv, DeletedInv
  <2>3. \A j \in Key : Settled(j)' => Settled(j)
    BY <2>1 DEF Settled, TypeOK
  <2> QED BY <2>1, <2>2, <2>3, OutKept DEF OutInv
<1>2. ASSUME NEW k \in Key, DeleteKey(a, k)
      PROVE  OpInv' /\ DeletedInv' /\ OutInv'
  <2>1. /\ keys' = [keys EXCEPT ![k] = "deleted"] /\ writer' = [writer EXCEPT ![k] = a]
        /\ UNCHANGED <<revoked, applied>>
        /\ admin[a].pc = "idle" /\ admin'[a].pc = "hub" /\ admin'[a].op = "disable"
        /\ admin'[a].key = k
        /\ \A q \in Admin : q # a => admin'[q] = admin[q]
    BY <1>2, BeginsKeys DEF DeleteKey, hub
  <2>2. OpInv' /\ DeletedInv'
    BY <2>1 DEF OpInv, DeletedInv, TypeOK
  <2>3. \A j \in Key : j # k => keys'[j] = keys[j] /\ (Settled(j)' => Settled(j))
    BY <2>1 DEF Settled, TypeOK
  <2>4. ~ Settled(k)'
    BY <2>1, ConstantsAssumption DEF Settled, TypeOK
  <2>5. ASSUME NEW j \in Key
        PROVE  Out(j)'
    <3>1. CASE j = k
      BY <2>4, <3>1 DEF Out
    <3>2. CASE j # k
      BY <2>1, <2>3, <3>2, OutKept DEF OutInv
    <3> QED BY <3>1, <3>2
  <2> QED BY <2>2, <2>5 DEF OutInv
<1>3. CASE Release(a) \/ Suspend(a) \/ DeleteDevice(a)
  <2>1. /\ UNCHANGED <<keys, revoked, writer, applied>>
        /\ admin[a].pc = "idle" /\ admin'[a].pc = "hub" /\ admin'[a].key = None
        /\ \A q \in Admin : q # a => admin'[q] = admin[q]
    BY <1>3, BeginsKeys DEF Release, Suspend, DeleteDevice, hub, history
  <2>2. OpInv' /\ DeletedInv'
    BY <1>0, <2>1 DEF OpInv, DeletedInv
  <2>3. \A j \in Key : Settled(j)' => Settled(j)
    BY <2>1 DEF Settled, TypeOK
  <2> QED BY <2>1, <2>2, <2>3, OutKept DEF OutInv
<1> QED BY <1>1, <1>2, <1>3 DEF AdminRequest

LEMMA StepKeys ==
    ASSUME TypeInv, KeyInv, [Next]_vars, NEW a \in Admin, AdminStep(a)
    PROVE  OpInv' /\ DeletedInv' /\ OutInv'
<1> USE DEF TypeInv, KeyInv
<1>0. \A k \in Key : k # None
  BY ConstantsAssumption
<1>k. PICK k : k = admin[a].key
  OBVIOUS
<1>1. CASE WriteKey(a)
  <2>1. /\ admin[a].pc = "write" /\ k \in Key /\ admin[a].op \in {"disable", "enable"}
        /\ admin'[a].pc = "hub" /\ admin'[a].op = admin[a].op /\ admin'[a].key = k
        /\ \A q \in Admin : q # a => admin'[q] = admin[q]
        /\ UNCHANGED <<revoked, applied>>
    BY <1>1, <1>k DEF WriteKey, AdminInv, TypeOK, AdminRec, hub
  <2>2. CASE keys[k] = "deleted"
    <3>1. UNCHANGED <<keys, writer>>
      BY <1>1, <1>k, <2>2 DEF WriteKey
    <3>2. OpInv' /\ DeletedInv'
      BY <1>k, <2>1, <2>2, <3>1 DEF OpInv, DeletedInv
    <3>3. \A j \in Key : Settled(j)' => Settled(j)
      BY <1>k, <2>1, <3>1 DEF Settled, TypeOK
    <3> QED BY <2>1, <3>1, <3>2, <3>3, OutKept DEF OutInv
  <2>3. CASE keys[k] # "deleted"
    <3>1. /\ keys' = [keys EXCEPT ![k] = IF admin[a].op = "enable" THEN "active" ELSE "disabled"]
          /\ writer' = [writer EXCEPT ![k] = a]
      BY <1>1, <1>k, <2>3 DEF WriteKey
    <3>2. OpInv' /\ DeletedInv'
      BY <2>1, <3>1 DEF OpInv, DeletedInv, TypeOK
    <3>3. \A j \in Key : j # k => keys'[j] = keys[j] /\ (Settled(j)' => Settled(j))
      BY <1>k, <2>1, <3>1 DEF Settled, TypeOK
    <3>4. ~ Settled(k)'
      BY <2>1, <3>1, ConstantsAssumption DEF Settled, TypeOK
    <3>5. ASSUME NEW j \in Key
          PROVE  Out(j)'
      <4>1. CASE j = k
        BY <3>4, <4>1 DEF Out
      <4>2. CASE j # k
        BY <2>1, <3>3, <4>2, OutKept DEF OutInv
      <4> QED BY <4>1, <4>2
    <3> QED BY <3>2, <3>5 DEF OutInv
  <2> QED BY <2>2, <2>3
<1>2. CASE HubKey(a)
  <2>1. /\ admin[a].pc = "hub" /\ k \in Key /\ admin[a].op \in {"disable", "enable"}
        /\ admin'[a].pc = "idle"
        /\ \A q \in Admin : q # a => admin'[q] = admin[q]
        /\ UNCHANGED <<keys, writer>> /\ applied' = [applied EXCEPT ![k] = a]
        /\ revoked' = IF admin[a].op = "enable" THEN revoked \ {k} ELSE revoked \cup {k}
    BY <1>2, <1>k, Fields DEF HubKey, Allowed, AdminInv, TypeOK
  <2>2. OpInv' /\ DeletedInv'
    BY <2>1 DEF OpInv, DeletedInv
  <2>3. ASSUME NEW j \in Key, j # k
        PROVE  Out(j)'
    <3>1. Settled(j)' => Settled(j)
      BY <1>k, <2>1, <2>3 DEF Settled, TypeOK
    <3> QED BY <2>1, <2>3, <3>1, OutKept DEF OutInv
  <2>4. Out(k)'
    <3>1. SUFFICES ASSUME keys[k] # "active", writer[k] = a, NEW q \in Socket, sock'[q].key = k
                   PROVE  /\ sock'[q].st # "open"
                          /\ k \in revoked'
      BY <2>1 DEF Out, Settled, TypeOK
    <3>2. admin[a].op = "disable"
      BY <1>k, <2>1, <3>1 DEF OpInv
    <3>3. (sock[byDevice].key = k) \in BOOLEAN /\ sock' = Disconnected(sock[byDevice].key = k)
      BY <1>2, <1>k, <3>2 DEF HubKey
    <3>4. /\ sock'[q].key = sock[q].key
          /\ sock'[q].st = IF sock[byDevice].key = k /\ byDevice = q /\ sock[q].st = "open"
                             THEN "shut" ELSE sock[q].st
      BY <3>3, DisconnectedFields DEF TypeOK
    <3>5. sock'[q].st # "open"
      BY <3>1, <3>4 DEF LinkInv
    <3> QED BY <2>1, <3>2, <3>5
  <2> QED BY <2>2, <2>3, <2>4 DEF OutInv
<1>3. CASE HubDevice(a)
  <2>1. /\ admin[a].pc = "hub" /\ admin[a].key = None
        /\ admin'[a].pc = "idle"
        /\ \A q \in Admin : q # a => admin'[q] = admin[q]
        /\ UNCHANGED <<keys, writer, applied, revoked>>
    BY <1>3, Fields DEF HubDevice, AdminInv, TypeOK, history
  <2>2. OpInv' /\ DeletedInv'
    BY <2>1 DEF OpInv, DeletedInv
  <2>3. \A j \in Key : Settled(j)' => Settled(j)
    BY <1>0, <2>1 DEF Settled, TypeOK
  <2> QED BY <2>1, <2>2, <2>3, OutKept DEF OutInv
<1> QED BY <1>1, <1>2, <1>3 DEF AdminStep

LEMMA NextKeys == TypeInv /\ KeyInv /\ [Next]_vars => KeyInv'
<1> SUFFICES ASSUME TypeInv, KeyInv, [Next]_vars PROVE OpInv' /\ DeletedInv' /\ OutInv'
  BY LinkKept DEF TypeInv, KeyInv
<1>1. CASE \E a \in Admin : AdminRequest(a) \/ AdminStep(a)
  BY <1>1, RequestKeys, StepKeys
<1>2. CASE ServerRestart
  <2>1. OpInv' /\ DeletedInv'
    BY <1>2, Fields DEF ServerRestart, OpInv, DeletedInv
  <2>2. \A q \in Socket : sock'[q].key = None
    BY <1>2, Fields DEF ServerRestart
  <2>3. OutInv'
    BY <2>2, ConstantsAssumption DEF OutInv, Out
  <2> QED BY <2>1, <2>3
<1>3. CASE UNCHANGED <<keys, revoked, admin, writer, applied>>
  <2>1. OpInv' /\ DeletedInv' /\ \A k \in Key : Settled(k)' => Settled(k)
    BY <1>3 DEF OpInv, DeletedInv, KeyInv, Settled
  <2> QED BY <1>3, <2>1, OutKept DEF TypeInv, KeyInv, OutInv
<1> QED BY <1>1, <1>2, <1>3, OnlyAdmins

LEMMA InitKeys == Init => KeyInv
BY Fields DEF Init, KeyInv, LinkInv, OpInv, DeletedInv, OutInv, Out

\* A disabled or deleted key keeps no channel once its request reached the hub:
\* neither the channel it had (closeByApiKey) nor one that was in the gate or
\* in the upgrade at that time (revokedKeys, read by register).
THEOREM RevokedStaysOut == Spec => []RevokedIsOut
<1>1. Init => TypeInv /\ KeyInv
  BY InitTypes, InitKeys
<1>2. TypeInv /\ KeyInv /\ [Next]_vars => TypeInv' /\ KeyInv'
  BY NextTypes, NextKeys
<1>3. KeyInv => RevokedIsOut
  BY DEF KeyInv, OutInv, Out, RevokedIsOut
<1> QED BY <1>1, <1>2, <1>3, PTL DEF Spec
-----------------------------------------------------------------------------
(* The owner of the device. *)

\* A verdict ends the check in the gate and moves a push on to the row.
LEMMA AcceptFields ==
    ASSUME TypeOK, NEW c \in Caller, NEW b \in Key \cup {None}, Accept(c, b)
    PROVE  /\ \A q \in Caller : q # c => check'[q] = check[q]
           /\ InGate(c) => check'[c] = Idle /\ sock'[c].st = "upgrade"
           /\ ~ InGate(c) => /\ check'[c].pc = "refresh" /\ check'[c].from = b
                             /\ check'[c].key = check[c].key /\ sock' = sock
<1>1. CASE InGate(c)
  BY <1>1 DEF Accept, InGate, TypeOK, SockRec
<1>2. CASE ~ InGate(c)
  BY <1>2 DEF Accept, TypeOK, CheckRec
<1> QED BY <1>1, <1>2

LEMMA RefuseFields ==
    ASSUME TypeOK, NEW c \in Caller, Refuse(c)
    PROVE  /\ \A q \in Caller : q # c => check'[q] = check[q]
           /\ check'[c] = Idle
           /\ c \in Socket => sock'[c].st # "gate"
<1>1. check' = [check EXCEPT ![c] = Idle]
  BY DEF Refuse
<1>2. ASSUME c \in Socket
      PROVE  sock'[c].st # "gate"
  <2>1. CASE InGate(c)
    BY <1>2, <2>1, Fields DEF Refuse, TypeOK
  <2>2. CASE ~ InGate(c)
    <3>1. (byDevice = c) \in BOOLEAN /\ sock' = Disconnected(byDevice = c)
      BY <2>2 DEF Refuse
    <3>2. sock'[c].st = IF byDevice = c /\ byDevice = c /\ sock[c].st = "open" THEN "shut" ELSE sock[c].st
      BY <1>2, <3>1, DisconnectedFields DEF TypeOK
    <3> QED BY <1>2, <2>2, <3>2 DEF InGate
  <2> QED BY <2>1, <2>2
<1> QED BY <1>1, <1>2 DEF TypeOK

\* The read of the binding, by what becomes of the check.
Goes(c, pc) ==
    /\ check'[c].pc = pc /\ check'[c].from = row.key /\ check'[c].key = check[c].key
    /\ \A q \in Caller : q # c => check'[q] = check[q]
    /\ sock' = sock

LEMMA ReadFields ==
    ASSUME TypeOK, NEW c \in Caller, BindingRead(c)
    PROVE  /\ check[c].pc = "read"
           /\ \/ Refuse(c)
              \/ InGate(c) /\ \E b \in Key \cup {None} : Accept(c, b)
              \/ ~ InGate(c) /\ Goes(c, "insert")
              \/ /\ ~ InGate(c) /\ Goes(c, "refresh")
                 /\ binding = "tenant" \/ row.key \in {None, check[c].key}
              \/ /\ Goes(c, "claim") /\ row.status # "none"
                 /\ binding = "tenant" \/ row.key = None
<1> DEFINE goes(pc) == /\ check' = [check EXCEPT ![c].pc = pc, ![c].from = row.key, ![c].here = TRUE]
                       /\ UNCHANGED sock
<1>1. ASSUME NEW pc, goes(pc)
      PROVE  Goes(c, pc)
  <2>1. check[c] \in CheckRec
    BY DEF TypeOK
  <2>2. check' = [check EXCEPT ![c] = [check[c] EXCEPT !.pc = pc, !.from = row.key, !.here = TRUE]]
    BY <1>1 DEF TypeOK
  <2>3. check'[c] = [check[c] EXCEPT !.pc = pc, !.from = row.key, !.here = TRUE]
    BY <2>2 DEF TypeOK
  <2>4. check'[c].pc = pc /\ check'[c].from = row.key /\ check'[c].key = check[c].key
    BY <2>1, <2>3 DEF CheckRec
  <2> QED BY <1>1, <2>2, <2>4 DEF Goes, TypeOK
<1>2. check[c].key \in Key \cup {None}
  BY DEF TypeOK, CheckRec
<1>3. \/ Refuse(c)
      \/ InGate(c) /\ (Accept(c, None) \/ Accept(c, check[c].key))
      \/ ~ InGate(c) /\ goes("insert")
      \/ ~ InGate(c) /\ goes("refresh") /\ (binding = "tenant" \/ row.key \in {None, check[c].key})
      \/ goes("claim") /\ row.status # "none" /\ (binding = "tenant" \/ row.key = None)
  BY DEF BindingRead, MayAct
<1> HIDE DEF goes
<1> QED BY <1>1, <1>2, <1>3 DEF BindingRead

\* Steps of the caller of a check keep it tied to its connection.
LEMMA BelongsChecks ==
    ASSUME TypeOK, CheckInv, [Next]_vars, NEW c \in Caller, CheckStep(c) \/ Deferred(c),
           NEW q \in Socket
    PROVE  Belongs(q)'
<1>1. Belongs(q) /\ Moves(q) /\ q \in Caller
  BY SockSteps DEF CheckInv, Caller
<1>2. check[c].key \in Key \cup {None} /\ row.key \in Key \cup {None}
  BY DEF TypeOK, CheckRec, RowRec
<1>3. ASSUME q # c, check'[q] = check[q], Stays(q)
      PROVE  Belongs(q)'
  BY <1>1, <1>3 DEF Belongs, Stays
<1>4. ASSUME Refuse(c)
      PROVE  Belongs(q)'
  <2>1. CASE q = c
    BY <1>4, <2>1, RefuseFields, Fields DEF Belongs
  <2>2. CASE q # c
    <3>1. Stays(q) \/ Closes(q) \/ Passes(q)
      BY <1>4, VerdictMoves
    <3>2. sock'[q] = sock[q] \/ Stays(q)
      <4>1. CASE InGate(c)
        BY <1>4, <2>2, <4>1 DEF Refuse, InGate, TypeOK
      <4>2. CASE ~ InGate(c)
        <5>1. (byDevice = c) \in BOOLEAN /\ sock' = Disconnected(byDevice = c)
          BY <1>4, <4>2 DEF Refuse
        <5> QED BY <5>1, DisconnectedFields DEF TypeOK, Stays
      <4> QED BY <4>1, <4>2
    <3>3. Stays(q)
      BY <3>2 DEF Stays
    <3> QED BY <1>1, <1>3, <1>4, <2>2, <3>3, RefuseFields
  <2> QED BY <2>1, <2>2
<1>5. ASSUME NEW b \in Key \cup {None}, Accept(c, b)
      PROVE  Belongs(q)'
  <2>1. CASE q = c /\ InGate(c)
    BY <1>5, <2>1, AcceptFields, Fields DEF Belongs
  <2>2. CASE q = c /\ ~ InGate(c) /\ check[c].pc # "idle"
    BY <1>1, <1>5, <2>2, AcceptFields DEF Belongs, InGate
  <2>3. CASE q # c
    <3>1. sock'[q] = sock[q]
      BY <1>5, <2>3 DEF Accept, InGate, TypeOK
    <3> QED BY <1>1, <1>3, <1>5, <2>3, <3>1, AcceptFields DEF Stays
  <2>4. check[c].pc # "idle"
    BY <1>5, ConstantsAssumption DEF CheckStep, Deferred, BindingRead, Claim, Reread, Insert, Refresh, Answer
  <2> QED BY <2>1, <2>2, <2>3, <2>4
<1>6. CASE BindingRead(c)
  <2>1. ASSUME NEW pc \in {"insert", "refresh", "claim"}, Goes(c, pc), pc # "claim" => ~ InGate(c),
               check[c].pc = "read"
        PROVE  Belongs(q)'
    <3>1. CASE q = c
      BY <1>1, <2>1, <3>1 DEF Goes, Belongs, InGate
    <3>2. CASE q # c
      BY <1>1, <1>3, <2>1, <3>2 DEF Goes, Stays
    <3> QED BY <3>1, <3>2
  <2> QED BY <1>2, <1>4, <1>5, <1>6, <2>1, ReadFields
<1>7. CASE Claim(c)
  <2>1. CASE Accept(c, check[c].key)
    BY <1>2, <1>5, <2>1
  <2>2. CASE /\ check' = [check EXCEPT ![c] = Idle]
             /\ sock' = IF InGate(c) THEN [sock EXCEPT ![c] = Closed] ELSE sock
    BY <1>1, <2>2, Fields DEF Belongs, InGate, TypeOK
  <2>3. CASE check[c].pc = "claim" /\ check' = [check EXCEPT ![c].pc = "reread"] /\ UNCHANGED sock
    BY <1>1, <2>3 DEF Belongs, TypeOK, CheckRec
  <2> QED BY <1>7, <2>1, <2>2, <2>3 DEF Claim
<1>8. CASE Reread(c)
  BY <1>2, <1>4, <1>5, <1>8 DEF Reread
<1>9. CASE Insert(c) \/ Answer(c)
  <2>1. /\ check' = [check EXCEPT ![c] = Idle] /\ sock' = sock
        /\ check[c].pc \in {"insert", "answer"}
    BY <1>9 DEF Insert, Answer, hub
  <2> QED BY <1>1, <2>1, Fields DEF Belongs, TypeOK
<1>10. CASE Refresh(c)
  <2>1. CASE Refuse(c)
    BY <1>4, <2>1
  <2>2. CASE ~ Refuse(c)
    <3>1. /\ check[c].pc = "refresh" /\ sock' = sock
          /\ check' = [check EXCEPT ![c] =
                         IF row.status = "approved" THEN [@ EXCEPT !.pc = "answer"] ELSE Idle]
      BY <1>10, <2>2 DEF Refresh
    <3>2. /\ q # c => check'[q] = check[q]
          /\ check'[c].pc = "idle" \/ (check'[c].pc = "answer" /\ check'[c].key = check[c].key)
      BY <1>1, <3>1, Fields DEF TypeOK, CheckRec
    <3> QED BY <1>1, <3>1, <3>2 DEF Belongs
  <2> QED BY <2>1, <2>2
<1>11. CASE Deferred(c)
  BY <1>4, <1>11 DEF Deferred
<1> QED BY <1>6, <1>7, <1>8, <1>9, <1>10, <1>11 DEF CheckStep

\* Every other step leaves the checks of the channels alone, or starts one.
Same(q) == /\ check'[q].pc = check[q].pc /\ check'[q].key = check[q].key
           /\ check'[q].from = check[q].from
Starts(q) == check'[q].pc \in {"hub", "read", "idle"}

LEMMA OtherChecks ==
    ASSUME TypeOK, CheckInv, [Next]_vars, ~ \E c \in Caller : CheckStep(c) \/ Deferred(c),
           NEW q \in Socket
    PROVE  Belongs(q)' /\ (Same(q) \/ Starts(q))
<1>1. Belongs(q) /\ Moves(q) /\ q \in Caller
  BY SockSteps DEF CheckInv, Caller
<1>2. ASSUME Same(q), Stays(q) \/ Closes(q) \/ Opens(q)
      PROVE  Belongs(q)' /\ (Same(q) \/ Starts(q))
  BY <1>1, <1>2, Fields DEF Belongs, Same, Stays, Closes, Opens
<1>3. ASSUME NEW s \in Socket, NEW k \in Key, Connect(s, k)
      PROVE  Belongs(q)' /\ (Same(q) \/ Starts(q))
  <2>1. CASE q = s
    <3>1. sock'[q].st = "gate" /\ sock'[q].key = k /\ check'[q].pc = "hub" /\ check'[q].key = k
      BY <1>1, <1>3, <2>1 DEF Connect, Closed, Idle, TypeOK
    <3> QED BY <3>1 DEF Belongs, Starts
  <2>2. CASE q # s
    <3>1. sock'[q] = sock[q] /\ check'[q] = check[q]
      BY <1>1, <1>3, <2>2 DEF Connect, TypeOK
    <3> QED BY <1>2, <3>1 DEF Same, Stays
  <2> QED BY <2>1, <2>2
<1>4. ASSUME NEW s \in Socket, Heartbeat(s)
      PROVE  Belongs(q)' /\ (Same(q) \/ Starts(q))
  <2>1. CASE q = s
    <3>1. /\ sock'[q].st = "open" /\ sock'[q].key = sock[q].key
          /\ check'[q].pc = "read" /\ check'[q].key = sock[q].key
      BY <1>1, <1>4, <2>1 DEF Heartbeat, Idle, TypeOK, SockRec
    <3> QED BY <3>1 DEF Belongs, Starts
  <2>2. CASE q # s
    <3>1. sock'[q] = sock[q] /\ check'[q] = check[q]
      BY <1>1, <1>4, <2>2 DEF Heartbeat, TypeOK
    <3> QED BY <1>2, <3>1 DEF Same, Stays
  <2> QED BY <2>1, <2>2
<1>5. ASSUME NEW s \in Socket, AskHub(s)
      PROVE  Belongs(q)' /\ (Same(q) \/ Starts(q))
  <2>1. CASE LiveConflict(check[s].key)
    BY <1>1, <1>5, <2>1, Fields DEF AskHub, TypeOK, Belongs, Same, Starts
  <2>2. CASE ~ LiveConflict(check[s].key)
    <3>1. check[s].pc = "hub" /\ sock' = sock /\ check' = [check EXCEPT ![s].pc = "read"]
      BY <1>5, <2>2 DEF AskHub
    <3> QED BY <1>1, <3>1 DEF TypeOK, CheckRec, Belongs, Same, Starts
  <2> QED BY <2>1, <2>2
<1>6. ASSUME NEW h \in Http, NEW k \in Key, Push(h, k)
      PROVE  Belongs(q)' /\ (Same(q) \/ Starts(q))
  <2>1. sock' = sock /\ check'[q] = check[q]
    BY <1>1, <1>6, ConstantsAssumption DEF Push, TypeOK, hub
  <2> QED BY <1>2, <2>1 DEF Same, Stays
<1>7. CASE ServerRestart
  BY <1>1, <1>7, Fields DEF ServerRestart, Belongs, Starts
<1>8. ASSUME NEW a \in Admin, DeleteDevice(a)
      PROVE  Belongs(q)' /\ (Same(q) \/ Starts(q))
  <2>1. sock' = sock /\ Same(q)
    BY <1>1, <1>8 DEF DeleteDevice, TypeOK, CheckRec, hub, Same
  <2> QED BY <1>2, <2>1 DEF Stays
<1>9. CASE /\ UNCHANGED check
           /\ ~ \E s \in Socket, k \in Key : Connect(s, k)
  <2>1. ASSUME Passes(q)
        PROVE  FALSE
    <3>1. sock[q].st = "gate" /\ sock'[q].st = "upgrade"
      BY <2>1 DEF Passes
    <3>2. ASSUME NEW s \in Socket, Register(s) \/ CloseEvent(s) \/ LostShuts(s) \/ NoHeartbeat(s) \/ Drop(s)
          PROVE  FALSE
      <4>1. CASE Register(s) /\ (sock[s].lost \/ Refuses(s))
        BY <3>1, <4>1, Fields DEF Register, TypeOK
      <4>2. CASE Register(s) /\ ~ (sock[s].lost \/ Refuses(s))
        <5>1. /\ Disconnected(TRUE) \in [Socket -> SockRec]
              /\ Disconnected(TRUE)[q].st \in {sock[q].st, "shut"}
          BY DisconnectedFields DEF TypeOK
        <5> QED BY <3>1, <4>2, <5>1 DEF Register, SockRec
      <4>3. CASE CloseEvent(s)
        BY <3>1, <4>3, Fields DEF CloseEvent, TypeOK
      <4>4. CASE LostShuts(s) \/ NoHeartbeat(s)
        BY <3>1, <4>4, ShutFields DEF LostShuts, NoHeartbeat, TypeOK
      <4>5. CASE Drop(s)
        BY <3>1, <4>5 DEF Drop, TypeOK, SockRec
      <4> QED BY <3>2, <4>1, <4>2, <4>3, <4>4, <4>5
    <3>3. ASSUME NEW a \in Admin, HubKey(a) \/ HubDevice(a)
          PROVE  FALSE
      <4>1. CASE HubKey(a)
        <5>1. (admin[a].op = "disable" /\ sock[byDevice].key = admin[a].key) \in BOOLEAN
          OBVIOUS
        <5> QED BY <3>1, <4>1, <5>1, DisconnectedFields DEF HubKey, TypeOK
      <4>2. CASE HubDevice(a)
        BY <3>1, <4>2, DisconnectedFields DEF HubDevice, TypeOK
      <4> QED BY <3>3, <4>1, <4>2
    <3>4. ASSUME NEW k \in Key, StartStop(k)
          PROVE  FALSE
      BY <3>1, <3>4 DEF StartStop, TypeOK, SockRec
    <3>5. CASE UNCHANGED sock
      BY <3>1, <3>5
    <3>6. CASE \E s \in Socket : Heartbeat(s) \/ AskHub(s)
      BY <3>1, <3>6, Fields DEF Heartbeat, AskHub, TypeOK, SockRec
    <3>7. CASE ServerRestart
      BY <3>1, <3>7, Fields DEF ServerRestart
    <3>8. CASE Approve \/ UNCHANGED vars \/ \E h \in Http, k \in Key : Push(h, k)
      BY <3>5, <3>8 DEF Approve, Push, vars, hub
    <3>9. CASE \E a \in Admin : AdminRequest(a) \/ WriteKey(a)
      BY <3>5, <3>9 DEF AdminRequest, ReadKey, DeleteKey, Release, Suspend, DeleteDevice, WriteKey, hub
    <3> QED BY <1>9, <3>2, <3>3, <3>4, <3>6, <3>7, <3>8, <3>9 DEF Next, SocketStep, AdminStep
  <2>2. Stays(q) \/ Closes(q) \/ Opens(q)
    BY <1>1, <1>9, <2>1 DEF Moves, Enters
  <2>3. Same(q)
    BY <1>9 DEF Same
  <2> QED BY <1>2, <2>2, <2>3
<1>10. \/ UNCHANGED check
       \/ \E s \in Socket : Heartbeat(s) \/ AskHub(s) \/ \E k \in Key : Connect(s, k)
       \/ \E h \in Http, k \in Key : Push(h, k)
       \/ ServerRestart
       \/ \E a \in Admin : DeleteDevice(a)
  BY DEF Next, SocketStep, AdminRequest, AdminStep, Register, CloseEvent, LostShuts, NoHeartbeat, Drop,
         StartStop, Approve, ReadKey, WriteKey, DeleteKey, HubKey, Release, Suspend, HubDevice, vars
<1> QED BY <1>3, <1>4, <1>5, <1>6, <1>7, <1>8, <1>9, <1>10

LEMMA NextChecks ==
    ASSUME TypeOK, CheckInv, [Next]_vars
    PROVE  CheckInv'
<1>1. ASSUME NEW q \in Socket
      PROVE  (sock'[q].st # "none" => sock'[q].key \in Key) /\ Belongs(q)'
  <2>1. Moves(q) /\ (sock[q].st # "none" => sock[q].key \in Key)
    BY SockSteps DEF CheckInv
  <2>2. sock'[q].st # "none" => sock'[q].key \in Key
    BY <2>1, Fields DEF Moves, Stays, Closes, Enters, Passes, Opens
  <2>3. Belongs(q)'
    BY BelongsChecks, OtherChecks
  <2> QED BY <2>2, <2>3
<1> QED BY <1>1 DEF CheckInv

\* A claim is started by the read of an existing row and changes no more.
LEMMA ClaimSteps ==
    ASSUME TypeOK, [Next]_vars, NEW c \in Caller, check'[c].pc = "claim"
    PROVE  \/ /\ check[c].pc = "claim" /\ check'[c].from = check[c].from
              /\ check'[c].here => check[c].here /\ ~ \E a \in Admin : DeleteDevice(a)
           \/ /\ BindingRead(c) /\ Goes(c, "claim") /\ row.status # "none"
              /\ binding = "tenant" \/ row.key = None
<1> DEFINE Goal == \/ /\ check[c].pc = "claim" /\ check'[c].from = check[c].from
                      /\ check'[c].here => check[c].here /\ ~ \E a \in Admin : DeleteDevice(a)
                   \/ /\ BindingRead(c) /\ Goes(c, "claim") /\ row.status # "none"
                      /\ binding = "tenant" \/ row.key = None
<1>0. ASSUME NEW a \in Admin, DeleteDevice(a)
      PROVE  Goal
  BY <1>0 DEF DeleteDevice, TypeOK, CheckRec
<1>1. ASSUME check'[c] = check[c]
      PROVE  Goal
  BY <1>0, <1>1
<1>2. ASSUME NEW d \in Caller, CheckStep(d) \/ Deferred(d)
      PROVE  Goal
  <2>1. check[d].key \in Key \cup {None} /\ row.key \in Key \cup {None}
    BY DEF TypeOK, CheckRec, RowRec
  <2>2. ASSUME Refuse(d)
        PROVE  Goal
    BY <1>1, <2>2, RefuseFields, Fields
  <2>3. ASSUME NEW b \in Key \cup {None}, Accept(d, b)
        PROVE  Goal
    BY <1>1, <2>3, AcceptFields, Fields
  <2>4. CASE BindingRead(d)
    <3>1. CASE d = c
      BY <2>2, <2>3, <2>4, <3>1, ReadFields DEF Goes
    <3>2. CASE d # c
      BY <1>1, <2>2, <2>3, <2>4, <3>2, ReadFields DEF Goes
    <3> QED BY <3>1, <3>2
  <2>5. CASE Claim(d)
    <3>1. CASE Accept(d, check[d].key)
      BY <2>1, <2>3, <3>1
    <3>2. CASE check' = [check EXCEPT ![d] = Idle]
      BY <1>1, <3>2, Fields DEF TypeOK
    <3>3. CASE check' = [check EXCEPT ![d].pc = "reread"]
      BY <1>1, <3>3 DEF TypeOK, CheckRec
    <3> QED BY <2>5, <3>1, <3>2, <3>3 DEF Claim
  <2>6. CASE Reread(d)
    BY <2>1, <2>2, <2>3, <2>6 DEF Reread
  <2>7. CASE Insert(d) \/ Answer(d)
    BY <1>1, <2>7, Fields DEF Insert, Answer, TypeOK
  <2>8. CASE Refresh(d)
    <3>1. CASE check' = [check EXCEPT ![d] =
                           IF row.status = "approved" THEN [@ EXCEPT !.pc = "answer"] ELSE Idle]
      <4>1. CASE c = d
        BY <3>1, <4>1, Fields DEF TypeOK, CheckRec
      <4>2. CASE c # d
        BY <1>1, <3>1, <4>2 DEF TypeOK
      <4> QED BY <4>1, <4>2
    <3> QED BY <2>2, <2>8, <3>1 DEF Refresh
  <2>9. CASE Deferred(d)
    BY <2>2, <2>9 DEF Deferred
  <2> QED BY <1>2, <2>4, <2>5, <2>6, <2>7, <2>8, <2>9 DEF CheckStep
<1>3. ASSUME NEW s \in Socket, AskHub(s)
      PROVE  Goal
  <2>1. s \in Caller
    BY DEF Caller
  <2> QED BY <1>1, <1>3, <2>1, Fields DEF AskHub, TypeOK, CheckRec
<1>4. ASSUME NEW s \in Caller, NEW k, check' = [check EXCEPT ![s] = [Idle EXCEPT !.pc = "hub", !.key = k]]
      PROVE  Goal
  BY <1>1, <1>4 DEF TypeOK, Idle
<1>5. ASSUME NEW s \in Caller, NEW k, check' = [check EXCEPT ![s] = [Idle EXCEPT !.pc = "read", !.key = k]]
      PROVE  Goal
  BY <1>1, <1>5 DEF TypeOK, Idle
<1>6. ASSUME UNCHANGED check
      PROVE  Goal
  BY <1>1, <1>6
<1>7. ASSUME ServerRestart
      PROVE  Goal
  BY <1>7, Fields DEF ServerRestart
<1>8. \/ UNCHANGED check
      \/ \E d \in Caller : CheckStep(d) \/ Deferred(d)
      \/ \E s \in Socket : Heartbeat(s) \/ AskHub(s) \/ \E k \in Key : Connect(s, k)
      \/ \E h \in Http, k \in Key : Push(h, k)
      \/ ServerRestart
      \/ \E a \in Admin : DeleteDevice(a)
  BY DEF Next, SocketStep, AdminRequest, AdminStep, Register, CloseEvent, LostShuts, NoHeartbeat, Drop,
         StartStop, Approve, ReadKey, WriteKey, DeleteKey, HubKey, Release, Suspend, HubDevice, vars
<1> HIDE DEF Goal
<1>9. ASSUME NEW s \in Socket, Heartbeat(s)
       PROVE  Goal
  <2>1. s \in Caller
    BY DEF Caller
  <2> QED BY <1>5, <1>9, <2>1 DEF Heartbeat
<1>10. ASSUME NEW s \in Socket, NEW k \in Key, Connect(s, k)
       PROVE  Goal
  <2>1. s \in Caller
    BY DEF Caller
  <2> QED BY <1>4, <1>10, <2>1 DEF Connect
<1>11. ASSUME NEW h \in Http, NEW k \in Key, Push(h, k)
       PROVE  Goal
  <2>1. h \in Caller
    BY DEF Caller
  <2> QED BY <1>5, <1>11, <2>1 DEF Push
<1>12. Goal
  BY <1>0, <1>2, <1>3, <1>6, <1>7, <1>8, <1>9, <1>10, <1>11
<1> QED BY <1>12 DEF Goal

\* What a step does to the row.
Claims(c) == /\ check[c].pc = "claim" /\ check[c].here /\ row.key = check[c].from
             /\ Claim(c) /\ row' = [row EXCEPT !.key = check[c].key]
Enrols(c) == Insert(c) /\ row.status = "none" /\ row' = [status |-> "pending", key |-> check[c].key]

LEMMA RowSteps ==
    ASSUME [Next]_vars
    PROVE  \/ UNCHANGED row
           \/ \E c \in Caller : Claims(c) \/ Enrols(c)
           \/ \E a \in Admin : AdminRequest(a)
           \/ Approve
<1>1. ASSUME NEW c \in Caller, Claim(c)
      PROVE  UNCHANGED row \/ Claims(c)
  BY <1>1 DEF Claim, Claims
<1>2. ASSUME NEW c \in Caller, Insert(c)
      PROVE  UNCHANGED row \/ Enrols(c)
  BY <1>2 DEF Insert, Enrols
<1> QED BY <1>1, <1>2
  DEF Next, SocketStep, CheckStep, AdminStep, Connect, Heartbeat, AskHub, Register, CloseEvent, LostShuts,
      NoHeartbeat, Drop, Push, BindingRead, Reread, Refresh, Answer, Deferred, StartStop, WriteKey,
      HubKey, HubDevice, ServerRestart, vars

LEMMA BindingFixed == [Next]_vars => UNCHANGED binding
BY DEF Next, SocketStep, CheckStep, AdminRequest, AdminStep, Connect, Heartbeat, AskHub, Register,
       CloseEvent, LostShuts, NoHeartbeat, Drop, Push, BindingRead, Claim, Reread, Insert, Refresh,
       Answer, Deferred, StartStop, ReadKey, WriteKey, DeleteKey, HubKey, Release, Suspend, Approve,
       DeleteDevice, HubDevice, ServerRestart, vars

LEMMA NextRow ==
    ASSUME TypeOK, RowInv, ClaimInv, [Next]_vars
    PROVE  RowInv' /\ ClaimInv'
<1>1. row \in RowRec
  BY DEF TypeOK
<1>2. RowInv' /\ (row'.status = "none" => row.status = "none" \/ \E a \in Admin : DeleteDevice(a))
  <2>1. CASE UNCHANGED row
    BY <2>1 DEF RowInv
  <2>2. ASSUME NEW c \in Caller, Claims(c)
        PROVE  row'.status # "none"
    BY <1>1, <2>2 DEF Claims, ClaimInv, RowRec
  <2>3. ASSUME NEW c \in Caller, Enrols(c)
        PROVE  row'.status # "none"
    BY <2>3 DEF Enrols
  <2>4. CASE Approve
    BY <1>1, <2>4 DEF Approve, RowInv, RowRec
  <2>5. ASSUME NEW a \in Admin, AdminRequest(a)
        PROVE  /\ RowInv'
               /\ row'.status = "none" => row.status = "none" \/ DeleteDevice(a)
    BY <1>1, <2>5, Fields DEF AdminRequest, ReadKey, DeleteKey, Release, Suspend, DeleteDevice, RowInv, RowRec
  <2> QED BY <2>1, <2>2, <2>3, <2>4, <2>5, RowSteps DEF RowInv
<1>3. ASSUME NEW c \in Caller, check'[c].pc = "claim"
      PROVE  /\ check'[c].here => row'.status # "none"
             /\ binding' = "strict" => check'[c].from = None
  <2>1. UNCHANGED binding
    BY BindingFixed
  <2>2. CASE check[c].pc = "claim"
    <3>1. /\ check'[c].from = check[c].from
          /\ check'[c].here => check[c].here /\ ~ \E a \in Admin : DeleteDevice(a)
      BY <1>3, <2>2, ClaimSteps DEF BindingRead
    <3> QED BY <1>2, <2>1, <2>2, <3>1 DEF ClaimInv
  <2>3. CASE check[c].pc # "claim"
    <3>1. /\ BindingRead(c) /\ Goes(c, "claim") /\ row.status # "none"
          /\ binding = "tenant" \/ row.key = None
      BY <1>3, <2>3, ClaimSteps
    <3> QED BY <2>1, <3>1 DEF Goes, BindingRead
  <2> QED BY <2>2, <2>3
<1> QED BY <1>2, <1>3 DEF ClaimInv

\* A channel that stays, or opens, is served as before unless its check moves
\* on or the row changes.
LEMMA ServedKept ==
    ASSUME TypeOK, CheckInv, ServedInv, [Next]_vars, NEW q \in Socket, UNCHANGED admin,
           sock[q].st = "open" /\ Served(q) => Served(q)',
           Opens(q) => Same(q) \/ Starts(q)
    PROVE  ServedAt(q)'
<1>1. Moves(q) /\ Belongs(q) /\ ServedAt(q)
  BY SockSteps DEF CheckInv, ServedInv
<1> SUFFICES ASSUME sock'[q].st = "open"
             PROVE  Served(q)' \/ \E a \in Admin : Shuts(a, q)'
  BY DEF ServedAt
<1>2. CASE Stays(q)
  <2>1. sock[q].st = "open" /\ sock'[q].key = sock[q].key
    BY <1>2 DEF Stays
  <2>2. \A a \in Admin : Shuts(a, q) => Shuts(a, q)'
    BY <2>1 DEF Shuts
  <2> QED BY <1>1, <2>1, <2>2 DEF ServedAt
<1>3. CASE Opens(q)
  <2>1. check[q].pc = "idle"
    BY <1>1, <1>3 DEF Opens, Belongs
  <2>2. check'[q].pc \in {"hub", "read", "idle"}
    BY <1>3, <2>1 DEF Same, Starts
  <2> QED BY <2>2 DEF Served
<1> QED BY <1>1, <1>2, <1>3, Fields DEF Moves, Closes, Enters, Passes

LEMMA ServedChecks ==
    ASSUME TypeOK, CheckInv, RowInv, ClaimInv, ServedInv, [Next]_vars,
           NEW c \in Caller, CheckStep(c) \/ Deferred(c), NEW q \in Socket
    PROVE  ServedAt(q)'
<1>1. Moves(q) /\ Belongs(q) /\ q \in Caller /\ (sock[q].st # "none" => sock[q].key \in Key)
  BY SockSteps DEF CheckInv, Caller
<1>2. /\ check[c].key \in Key \cup {None} /\ row \in RowRec /\ row.key \in Key \cup {None}
      /\ \A k \in Key : k # None
  BY ConstantsAssumption DEF TypeOK, CheckRec, RowRec
<1>3. UNCHANGED admin /\ UNCHANGED binding
  BY BindingFixed DEF CheckStep, BindingRead, Claim, Reread, Insert, Refresh, Answer, Deferred
<1>4. ASSUME Opens(q)
      PROVE  FALSE
  <2>1. UNCHANGED check
    BY <1>4 DEF Opens, Register
  <2>2. check'[c] # check[c]
    <3>1. check[c].pc # "idle" /\ check[c].pc # "upgrade"
      BY ConstantsAssumption DEF CheckStep, BindingRead, Claim, Reread, Insert, Refresh, Answer, Deferred
    <3>2. Refuse(c) => check'[c] # check[c]
      BY <3>1, RefuseFields, Fields
    <3>3. ASSUME NEW b \in Key \cup {None}, Accept(c, b), check[c].pc # "refresh"
          PROVE  check'[c] # check[c]
      BY <3>1, <3>3, AcceptFields, Fields
    <3>4. CASE BindingRead(c)
      BY <3>2, <3>3, <3>4, ReadFields DEF Goes
    <3>5. CASE Claim(c)
      <4>1. CASE check' = [check EXCEPT ![c] = Idle]
        BY <3>1, <4>1, Fields DEF TypeOK
      <4>2. CASE check' = [check EXCEPT ![c].pc = "reread"] /\ check[c].pc = "claim"
        BY <4>2 DEF TypeOK, CheckRec
      <4> QED BY <1>2, <3>3, <3>5, <4>1, <4>2 DEF Claim
    <3>6. CASE Reread(c)
      BY <1>2, <3>2, <3>3, <3>6 DEF Reread
    <3>7. CASE Insert(c) \/ Answer(c)
      BY <3>1, <3>7, Fields DEF Insert, Answer, TypeOK
    <3>8. CASE Refresh(c)
      BY <3>1, <3>2, <3>8, Fields DEF Refresh, TypeOK, CheckRec
    <3>9. CASE Deferred(c)
      BY <3>2, <3>9 DEF Deferred
    <3> QED BY <3>4, <3>5, <3>6, <3>7, <3>8, <3>9 DEF CheckStep
  <2> QED BY <2>1, <2>2
<1> SUFFICES ASSUME sock[q].st = "open", Served(q), sock'[q].st = "open"
             PROVE  Served(q)' \/ ServedAt(q)'
  <2>1. sock'[q].st # "open" => ServedAt(q)'
    BY DEF ServedAt
  <2> QED BY <1>3, <1>4, <2>1, ServedKept
<1>5. sock'[q].key = sock[q].key
  BY <1>1, <1>4, Fields DEF Moves, Stays, Closes, Enters, Passes
<1>6. ASSUME Same(q) \/ Starts(q), UNCHANGED row
      PROVE  Served(q)'
  BY <1>3, <1>5, <1>6 DEF Served, Same, Starts
<1>7. ASSUME Refuse(c), UNCHANGED row
      PROVE  Served(q)'
  BY <1>1, <1>6, <1>7, RefuseFields, Fields DEF Same, Starts
<1>8. ASSUME NEW b \in Key \cup {None}, Accept(c, b), c = q => b = None \/ row'.key = sock[q].key,
             c # q /\ Served(q) => Served(q)' \/ UNCHANGED row
      PROVE  Served(q)'
  <2>1. CASE c = q
    <3>1. ~ InGate(c)
      BY <2>1 DEF InGate
    <3> QED BY <1>3, <1>5, <1>8, <2>1, <3>1, AcceptFields DEF Served
  <2>2. CASE c # q
    BY <1>1, <1>6, <1>8, <2>2, AcceptFields DEF Same
  <2> QED BY <2>1, <2>2
<1>9. c = q /\ check[c].pc # "idle" => check[c].key = sock[q].key /\ ~ InGate(c)
  BY <1>1 DEF Belongs, InGate
<1>10. CASE BindingRead(c)
  <2>1. UNCHANGED row /\ check[c].pc = "read"
    BY <1>10 DEF BindingRead
  <2>2. ASSUME InGate(c), NEW b \in Key \cup {None}, Accept(c, b)
        PROVE  Served(q)'
    <3>1. c # q
      BY <2>2 DEF InGate
    <3> QED BY <1>8, <2>1, <2>2, <3>1
  <2>3. ASSUME Goes(c, "insert") \/ Goes(c, "claim")
        PROVE  Served(q)'
    <3>1. CASE c = q
      BY <2>3, <3>1 DEF Goes, Served
    <3>2. CASE c # q
      BY <1>1, <1>6, <2>1, <2>3, <3>2 DEF Goes, Same
    <3> QED BY <3>1, <3>2
  <2>4. ASSUME Goes(c, "refresh"), binding = "tenant" \/ row.key \in {None, check[c].key}
        PROVE  Served(q)'
    <3>1. CASE c = q
      BY <1>3, <1>5, <1>9, <2>1, <2>4, <3>1 DEF Goes, Served
    <3>2. CASE c # q
      BY <1>1, <1>6, <2>1, <2>4, <3>2 DEF Goes, Same
    <3> QED BY <3>1, <3>2
  <2> QED BY <1>7, <1>10, <2>1, <2>2, <2>3, <2>4, ReadFields
<1>11. CASE Claim(c)
  <2>1. check[c].pc = "claim"
    BY <1>11 DEF Claim
  <2>2. CASE Claims(c) /\ Accept(c, check[c].key)
    <3>1. row'.key = check[c].key /\ row'.status = row.status
      BY <1>2, <2>2 DEF Claims, RowRec
    <3>2. ASSUME c # q
          PROVE  Served(q)'
      <4>1. check'[q] = check[q]
        BY <1>1, <1>2, <2>2, <3>2, AcceptFields
      <4>2. binding = "strict" => row.key = None
        BY <2>1, <2>2 DEF Claims, ClaimInv
      <4> QED BY <1>1, <1>2, <1>3, <1>5, <3>1, <4>1, <4>2 DEF Served
    <3> QED BY <1>2, <1>8, <1>9, <2>1, <2>2, <3>1, <3>2
  <2>3. CASE check' = [check EXCEPT ![c] = Idle] /\ UNCHANGED row
    BY <1>1, <1>6, <2>3, Fields DEF TypeOK, Same, Starts
  <2>4. CASE check' = [check EXCEPT ![c].pc = "reread"] /\ UNCHANGED row
    <3>1. CASE c = q
      BY <1>1, <2>4, <3>1 DEF TypeOK, CheckRec, Served
    <3>2. CASE c # q
      BY <1>1, <1>6, <2>4, <3>2 DEF TypeOK, Same
    <3> QED BY <3>1, <3>2
  <2> QED BY <1>11, <2>2, <2>3, <2>4 DEF Claim, Claims
<1>12. CASE Reread(c)
  <2>1. UNCHANGED row /\ check[c].pc = "reread"
    BY <1>12 DEF Reread
  <2>2. CASE Accept(c, row.key) /\ row.key \in {None, check[c].key}
    BY <1>2, <1>8, <1>9, <2>1, <2>2
  <2> QED BY <1>7, <1>12, <2>1, <2>2 DEF Reread, MayAct
<1>13. CASE Insert(c)
  <2>1. check'[q] = Idle \/ (q # c /\ check'[q] = check[q])
    BY <1>1, <1>13 DEF Insert, TypeOK
  <2>2. CASE check'[q] = Idle
    BY <2>2, Fields DEF Served
  <2>3. CASE check'[q] = check[q] /\ Enrols(c)
    <3>1. row.status = "none" /\ row.key = None
      BY <2>3 DEF Enrols, RowInv
    <3> QED BY <1>1, <1>2, <1>3, <1>5, <2>3, <3>1 DEF Served
  <2>4. UNCHANGED row \/ Enrols(c)
    BY <1>13 DEF Insert, Enrols
  <2> QED BY <1>6, <2>1, <2>2, <2>3, <2>4 DEF Same
<1>14. CASE Refresh(c)
  <2>1. UNCHANGED row /\ check[c].pc = "refresh"
    BY <1>14 DEF Refresh
  <2>2. CASE ~ Refuse(c)
    <3>1. check' = [check EXCEPT ![c] =
                      IF row.status = "approved" THEN [@ EXCEPT !.pc = "answer"] ELSE Idle]
      BY <1>14, <2>2 DEF Refresh
    <3>2. CASE c # q
      BY <1>1, <1>6, <2>1, <3>1, <3>2 DEF TypeOK, Same
    <3>3. CASE c = q
      <4>1. \/ check'[q].pc = "idle"
            \/ /\ check'[q].pc = "answer" /\ row.status = "approved"
               /\ check'[q].from = check[q].from
        BY <1>1, <3>1, <3>3, Fields DEF TypeOK, CheckRec
      <4> QED BY <1>3, <1>5, <2>1, <3>3, <4>1 DEF Served
    <3> QED BY <3>2, <3>3
  <2> QED BY <1>7, <2>1, <2>2
<1>15. CASE Answer(c)
  BY <1>1, <1>6, <1>15, Fields DEF Answer, TypeOK, Same, Starts
<1>16. CASE Deferred(c)
  BY <1>7, <1>16 DEF Deferred
<1> QED BY <1>10, <1>11, <1>12, <1>13, <1>14, <1>15, <1>16 DEF CheckStep

LEMMA ServedAdmins ==
    ASSUME TypeInv, LinkInv, CheckInv, ServedInv, [Next]_vars,
           NEW a \in Admin, AdminRequest(a) \/ AdminStep(a), NEW q \in Socket
    PROVE  ServedAt(q)'
<1> SUFFICES ASSUME sock'[q].st = "open"
             PROVE  Served(q)' \/ \E b \in Admin : Shuts(b, q)'
  BY DEF ServedAt
<1> USE DEF TypeInv
<1>1. UNCHANGED binding /\ q \in Caller /\ row \in RowRec /\ \A k \in Key : k # None
  BY BindingFixed, ConstantsAssumption DEF Caller, TypeOK
<1>2. Same(q)
  <2>1. ASSUME UNCHANGED check
        PROVE  Same(q)
    BY <2>1 DEF Same
  <2>2. CASE DeleteDevice(a)
    BY <1>1, <2>2 DEF DeleteDevice, TypeOK, CheckRec, Same
  <2> QED BY <2>1, <2>2
       DEF AdminRequest, AdminStep, ReadKey, WriteKey, DeleteKey, HubKey, Release, Suspend, HubDevice
<1>3. CASE AdminRequest(a)
  <2>1. UNCHANGED sock /\ ServedAt(q)
    BY <1>3 DEF AdminRequest, ReadKey, DeleteKey, Release, Suspend, DeleteDevice, hub, ServedInv
  <2>2. admin[a].pc = "idle" /\ \A b \in Admin : b # a => admin'[b] = admin[b]
    BY <1>3, BeginsKeys DEF AdminRequest, ReadKey, DeleteKey, Release, Suspend, DeleteDevice
  <2>3. \A b \in Admin : Shuts(b, q) => Shuts(b, q)'
    BY <2>1, <2>2 DEF Shuts
  <2>4. CASE Release(a) \/ Suspend(a) \/ DeleteDevice(a)
    <3>1. Shuts(a, q)'
      BY <2>4, BeginsKeys DEF Release, Suspend, DeleteDevice, Shuts
    <3> QED BY <3>1
  <2>5. ASSUME NEW k \in Key, ReadKey(a, k)
        PROVE  Served(q) => Served(q)'
    BY <1>1, <1>2, <2>1, <2>5 DEF ReadKey, Served, Same
  <2>6. ASSUME NEW k \in Key, DeleteKey(a, k)
        PROVE  (Served(q) => Served(q)') \/ Shuts(a, q)'
    <3>1. CASE sock[q].key = k
      BY <2>1, <2>6, <3>1, BeginsKeys DEF DeleteKey, Shuts
    <3>2. CASE sock[q].key # k
      <4>1. row'.status = row.status /\ (row.key = sock[q].key => row'.key = row.key)
        BY <1>1, <2>6, <3>2 DEF DeleteKey, RowRec
      <4> QED BY <1>1, <1>2, <2>1, <4>1 DEF Served, Same
    <3> QED BY <3>1, <3>2
  <2> QED BY <1>3, <2>1, <2>3, <2>4, <2>5, <2>6 DEF AdminRequest, ServedAt
<1>4. CASE AdminStep(a)
  <2>1. UNCHANGED row
    BY <1>4 DEF AdminStep, WriteKey, HubKey, HubDevice
  <2>2. sock[q].st = "open" /\ sock'[q].key = sock[q].key /\ ServedAt(q) /\ byDevice = q
    <3>1. Stays(q)
      <4>1. CASE HubKey(a)
        <5>1. (admin[a].op = "disable" /\ sock[byDevice].key = admin[a].key) \in BOOLEAN
          OBVIOUS
        <5> QED BY <4>1, <5>1, DisconnectedFields DEF HubKey, TypeOK, Stays
      <4>2. CASE HubDevice(a)
        BY <4>2, DisconnectedFields DEF HubDevice, TypeOK, Stays
      <4> QED BY <1>4, <4>1, <4>2 DEF AdminStep, WriteKey, hub, Stays
    <3> QED BY <3>1 DEF Stays, ServedInv, LinkInv
  <2>3. Served(q) => Served(q)'
    BY <1>1, <1>2, <2>1, <2>2 DEF Served, Same
  <2>4. \A b \in Admin : b # a => admin'[b] = admin[b]
    BY <1>4 DEF AdminStep, WriteKey, HubKey, HubDevice, TypeOK
  <2>5. ~ Shuts(a, q)
    <3>1. CASE WriteKey(a)
      BY <3>1 DEF WriteKey, Shuts
    <3>2. CASE HubKey(a)
      <4>1. SUFFICES ASSUME admin[a].op = "disable", admin[a].key = sock[q].key
                     PROVE  FALSE
        BY <3>2 DEF HubKey, Shuts
      <4>2. (admin[a].op = "disable" /\ sock[byDevice].key = admin[a].key) = TRUE
        BY <2>2, <4>1
      <4>3. sock' = Disconnected(TRUE)
        BY <3>2, <4>2 DEF HubKey
      <4> QED BY <2>2, <4>3, DisconnectedFields DEF TypeOK
    <3>3. CASE HubDevice(a)
      BY <2>2, <3>3, DisconnectedFields DEF HubDevice, TypeOK
    <3> QED BY <1>4, <3>1, <3>2, <3>3 DEF AdminStep
  <2>6. ASSUME NEW b \in Admin, Shuts(b, q)
        PROVE  Shuts(b, q)'
    BY <2>2, <2>4, <2>5, <2>6 DEF Shuts
  <2> QED BY <2>2, <2>3, <2>6 DEF ServedAt
<1> QED BY <1>3, <1>4

LEMMA NextOwner == TypeInv /\ OwnerInv /\ [Next]_vars => OwnerInv'
<1> SUFFICES ASSUME TypeInv, OwnerInv, [Next]_vars PROVE OwnerInv'
  OBVIOUS
<1>1. LinkInv' /\ CheckInv' /\ RowInv' /\ ClaimInv'
  BY LinkKept, NextChecks, NextRow DEF TypeInv, OwnerInv
<1>2. ASSUME NEW q \in Socket
      PROVE  ServedAt(q)'
  <2>1. CASE \E c \in Caller : CheckStep(c) \/ Deferred(c)
    BY <2>1, ServedChecks DEF TypeInv, OwnerInv
  <2>2. CASE \E a \in Admin : AdminRequest(a) \/ AdminStep(a)
    BY <2>2, ServedAdmins DEF OwnerInv
  <2>3. CASE ServerRestart
    BY <2>3, Fields DEF ServerRestart, ServedAt
  <2>4. CASE /\ ~ \E c \in Caller : CheckStep(c) \/ Deferred(c)
             /\ ~ \E a \in Admin : AdminRequest(a) \/ AdminStep(a)
             /\ ~ ServerRestart
    <3>1. UNCHANGED admin /\ UNCHANGED binding /\ (Same(q) \/ Starts(q))
      BY <2>4, OnlyAdmins, OtherChecks, BindingFixed DEF TypeInv, OwnerInv
    <3>2. row' = row \/ Approve
      BY <2>4, RowSteps DEF Claims, Enrols, CheckStep
    <3>3. row' = row \/ (row'.status = "approved" /\ row'.key = row.key)
      BY <3>2 DEF Approve, TypeInv, TypeOK, RowRec
    <3>4. sock'[q].st = "open" => Stays(q) \/ Opens(q)
      BY SockSteps, Fields DEF Moves, Closes, Enters, Passes, TypeInv
    <3>5. ASSUME Served(q), Stays(q)
          PROVE  Served(q)'
      BY <3>1, <3>3, <3>5 DEF Served, Same, Starts, Stays
    <3>6. sock[q].st = "open" /\ sock'[q].st = "open" /\ Served(q) => Served(q)'
      BY <3>4, <3>5 DEF Opens
    <3>7. CASE sock'[q].st = "open"
      BY <3>1, <3>6, <3>7, ServedKept DEF TypeInv, OwnerInv
    <3>8. CASE sock'[q].st # "open"
      BY <3>8 DEF ServedAt
    <3> QED BY <3>7, <3>8
  <2> QED BY <2>1, <2>2, <2>3, <2>4
<1> QED BY <1>1, <1>2 DEF OwnerInv, ServedInv

LEMMA InitOwner == Init => OwnerInv
<1> SUFFICES ASSUME Init PROVE OwnerInv
  OBVIOUS
<1>1. \A s \in Socket : sock[s].st = "none" /\ check[s].pc = "idle"
  BY Fields DEF Init, Caller
<1>2. \A c \in Caller : check[c].pc = "idle"
  BY Fields DEF Init
<1>3. RowInv
  BY Fields DEF Init, RowInv
<1> QED BY <1>1, <1>2, <1>3 DEF OwnerInv, LinkInv, CheckInv, Belongs, ClaimInv, ServedInv, ServedAt

\* A config frame goes only to an approved device, on the channel of the key the
\* device is bound to when the heartbeat found or made a binding, unless an
\* administrator's request is about to close that very channel.
THEOREM ConfigGoesToTheOwner == Spec => ServedIsOwner
<1>1. Init => TypeInv /\ OwnerInv
  BY InitTypes, InitOwner
<1>2. TypeInv /\ OwnerInv /\ [Next]_vars => TypeInv' /\ OwnerInv'
  BY NextTypes, NextOwner
<1>3. OwnerInv => \A s \in Socket :
                    ConfigWritten(s) =>
                      \/ /\ row.status = "approved"
                         /\ binding = "strict" /\ check[s].from # None => row.key = sock[s].key
                      \/ \E a \in Admin : Shuts(a, s)
  BY DEF OwnerInv, ServedInv, ServedAt, Served, ConfigWritten, Answer
<1> QED BY <1>1, <1>2, <1>3, PTL DEF Spec, ServedIsOwner
=============================================================================
