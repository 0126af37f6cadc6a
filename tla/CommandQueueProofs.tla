------------------------ MODULE CommandQueueProofs ------------------------
(***************************************************************************)
(* Theorems about CommandQueue, for every number of drains, rows, channels *)
(* and restarts: type correctness, one outstanding command per type, every *)
(* frame written and run at most once, and results that stay.              *)
(***************************************************************************)
EXTENDS CommandQueue, WellFoundedInduction, TLAPS

\* Rows a drain has claimed and not dealt with.
Held(d) == drain[d].hand \union drain[d].unsent

\* The status of a row tells whether it is used and finished.
RowsInv ==
    \A r \in Ids :
        /\ rows[r].type = "none" => rows[r].status = "none"
        /\ rows[r].status \in {"queued", "acked"} => ~rows[r].finished
        /\ rows[r].status \in {"expired", "succeeded", "failed"} => rows[r].finished

\* What a drain holds at each place of its code.
Shape(d) ==
    /\ drain[d].pc \in {"idle", "flag"} => Held(d) = {}
    /\ drain[d].pc = "claim" => drain[d].unsent = {} /\ lock = {d}
    /\ drain[d].pc \in {"claim", "send"} => drain[d].hand # {}
    /\ drain[d].pc = "requeue" => drain[d].hand = {}
    /\ drain[d].pc # "idle" => drain[d].conn \in Conns
    /\ drain[d].hand \cap drain[d].unsent = {}

\* Claimed rows: queued, or expired meanwhile, until the claim commits; never
\* queued afterwards; no two of one type.
Claimed(d) ==
    /\ drain[d].pc = "claim" => \A r \in Held(d) : rows[r].status \in {"queued", "expired"}
    /\ drain[d].pc # "claim" => \A r \in Held(d) : rows[r].status \notin {"none", "queued"}
    /\ \A r, q \in Held(d) : r # q => rows[r].type # rows[q].type

\* No row is held by two drains.
Disjoint == \A d, e \in Drains : d # e => Held(d) \cap Held(e) = {}

DrainInv == \A d \in Drains : Shape(d) /\ Claimed(d)

QueueInv == RowsInv /\ DrainInv /\ Disjoint /\ OneOutstanding

\* A row whose frame is not written yet.
Unwritten(r) == rows[r].status \in {"none", "queued"} \/ \E d \in Drains : r \in Held(d)

\* A frame is written at most once, after its row left the queue and the drains.
Counted(r) ==
    /\ written[r] \in {0, 1} /\ executed[r] <= written[r]
    /\ Unwritten(r) => written[r] = 0

\* A written frame is in one place: on its way, waiting, running, or run.
InAgent(r) ==
    /\ r \in waiting => written[r] = 1 /\ executed[r] = 0 /\ turn # r
    /\ turn = r => written[r] = 1 /\ (agent = "running" => executed[r] = 0)

OnItsWay(r) ==
    \A c \in Conns : \A i \in 1 .. Len(down[c]) :
        down[c][i].id = r => written[r] = 1 /\ executed[r] = 0 /\ r \notin waiting /\ turn # r

OneFrame(r) ==
    \A c, e \in Conns : \A i \in 1 .. Len(down[c]), j \in 1 .. Len(down[e]) :
        down[c][i].id = r /\ down[e][j].id = r => c = e /\ i = j

FrameInv(r) == Counted(r) /\ InAgent(r) /\ OnItsWay(r) /\ OneFrame(r)

OnceInv == \A r \in Ids : FrameInv(r)
-----------------------------------------------------------------------------
(* The least row. *)

LEMMA LeastId ==
    ASSUME NEW S \in SUBSET Ids, S # {}
    PROVE  \E r \in S : \A q \in S : r <= q
<1>1. S \subseteq Nat
  BY CommandAssumption DEF Ids
<1>2. \E r \in S : \A q \in S : ~ (<<q, r>> \in OpToRel(<, Nat))
  BY <1>1, NatLessThanWellFounded, WFMin
<1>3. \A q, r \in Nat : q < r => <<q, r>> \in OpToRel(<, Nat)
  BY DEF OpToRel
<1>4. PICK R : /\ \A q, r \in Nat : q < r => <<q, r>> \in R
               /\ \E r \in S : \A q \in S : ~ (<<q, r>> \in R)
  BY <1>2, <1>3, Zenon
<1>5. PICK r \in S : \A q \in S : ~ (<<q, r>> \in R)
  BY <1>4
<1>6. \A q \in S : ~ (q < r)
  BY <1>1, <1>4, <1>5
<1>7. \A q \in S : r <= q
  BY <1>1, <1>6
<1> QED BY <1>7

LEMMA NextIdUnused == Unused # {} => NextId \in Unused /\ NextId \in Ids
<1> SUFFICES ASSUME Unused # {} PROVE NextId \in Unused /\ NextId \in Ids
  OBVIOUS
<1>1. Unused \in SUBSET Ids
  BY DEF Unused
<1>2. \E r \in Unused : \A q \in Unused : r <= q
  BY <1>1, LeastId
<1> QED BY <1>1, <1>2 DEF NextId

LEMMA OldestIn == ASSUME NEW S \in SUBSET Ids, S # {} PROVE Oldest(S) \in S
<1>1. \E r \in S : \A q \in S : r <= q
  BY LeastId
<1> QED BY <1>1 DEF Oldest
-----------------------------------------------------------------------------
(* What the operators return. *)

LEMMA Fields ==
    /\ NoRow \in RowRec /\ NoRow.type = "none" /\ NoRow.status = "none"
    /\ IdleDrain \in DrainRec /\ IdleDrain.pc = "idle"
    /\ IdleDrain.hand = {} /\ IdleDrain.unsent = {}
    /\ \A t \in Types \union {"none"} :
         /\ NewRow(t) \in RowRec /\ NewRow(t).type = t /\ NewRow(t).status = "queued"
         /\ ~NewRow(t).finished
BY CommandAssumption DEF NoRow, IdleDrain, NewRow, RowRec, DrainRec, Statuses

\* Expiry closes queued rows and nothing else.
LEMMA ExpireFields ==
    ASSUME rows \in [Ids -> RowRec], NEW S
    PROVE  /\ ExpireAll(rows, S) \in [Ids -> RowRec]
           /\ \A r \in Ids :
                \/ ExpireAll(rows, S)[r] = rows[r]
                \/ /\ rows[r].status = "queued" /\ ExpireAll(rows, S)[r].status = "expired"
                   /\ ExpireAll(rows, S)[r].finished /\ ExpireAll(rows, S)[r].type = rows[r].type
<1>1. \A r \in Ids : rows[r] \in RowRec
  OBVIOUS
<1>2. \A r \in Ids : LET x == [rows[r] EXCEPT !.status = "expired", !.finished = TRUE]
                     IN  x \in RowRec /\ x.status = "expired" /\ x.finished /\ x.type = rows[r].type
  BY <1>1 DEF RowRec, Statuses
<1> QED BY <1>1, <1>2 DEF ExpireAll

\* claim's table: expired rows closed, at most one new uninstall.
LEMMA ClaimTableFields ==
    ASSUME rows \in [Ids -> RowRec]
    PROVE  /\ ClaimTable \in [Ids -> RowRec]
           /\ \A r \in Ids :
                \/ ClaimTable[r] = rows[r]
                \/ /\ rows[r].status = "queued" /\ ClaimTable[r].status = "expired"
                   /\ ClaimTable[r].finished /\ ClaimTable[r].type = rows[r].type
                \/ /\ rows[r].status = "none" /\ ClaimTable[r] = NewRow("uninstall")
                   /\ r = NextId /\ ~Outstanding("uninstall")
<1> DEFINE X == ExpireAll(rows, due)
<1>1. /\ X \in [Ids -> RowRec]
      /\ \A r \in Ids :
           \/ X[r] = rows[r]
           \/ /\ rows[r].status = "queued" /\ X[r].status = "expired"
              /\ X[r].finished /\ X[r].type = rows[r].type
  BY ExpireFields
<1>2. ClaimTable = IF pending /\ ~Outstanding("uninstall") /\ Unused # {}
                     THEN [X EXCEPT ![NextId] = NewRow("uninstall")] ELSE X
  BY DEF ClaimTable
<1>3. NewRow("uninstall") \in RowRec
  BY Fields, CommandAssumption
<1>4. Unused # {} => NextId \in Ids /\ rows[NextId].status = "none"
  BY NextIdUnused, Fields DEF Unused
<1> HIDE DEF X
<1> QED BY <1>1, <1>2, <1>3, <1>4

LEMMA MarkedFields ==
    ASSUME NEW x \in RowRec, NEW l \in BOOLEAN
    PROVE  /\ Marked(x, l) \in RowRec /\ Marked(x, l).status = "sent"
           /\ Marked(x, l).type = x.type /\ Marked(x, l).finished = (x.finished \/ l)
BY DEF Marked, RowRec, Statuses

\* A drain after one row.
LEMMA AfterFields ==
    ASSUME TypeOK, NEW d \in Drains, NEW r \in Ids, NEW u \in SUBSET Ids
    PROVE  /\ AfterRow(d, r, u) \in DrainRec
           /\ AfterRow(d, r, u).hand = drain[d].hand \ {r} /\ AfterRow(d, r, u).unsent = u
           /\ AfterRow(d, r, u).conn = drain[d].conn
           /\ AfterRow(d, r, u).pc \in {"send", "requeue", "idle"}
           /\ AfterRow(d, r, u).pc = "send" => drain[d].hand \ {r} # {}
           /\ AfterRow(d, r, u).pc = "requeue" => drain[d].hand \ {r} = {}
           /\ AfterRow(d, r, u).pc = "idle" => drain[d].hand \ {r} = {} /\ u = {}
<1>1. drain[d] \in DrainRec
  BY DEF TypeOK
<1> QED BY <1>1 DEF AfterRow, DrainRec

\* A row with a reported status.
Reported(r, st) == [rows EXCEPT ![r].status = st, ![r].finished = (st # "acked")]

LEMMA ReportedFields ==
    ASSUME rows \in [Ids -> RowRec], NEW r \in Ids, NEW st \in {"acked", "succeeded", "failed"}
    PROVE  /\ Reported(r, st) \in [Ids -> RowRec]
           /\ Reported(r, st)[r].status = st /\ Reported(r, st)[r].type = rows[r].type
           /\ Reported(r, st)[r].finished = (st # "acked")
           /\ \A q \in Ids : q # r => Reported(r, st)[q] = rows[q]
<1> DEFINE x == [rows[r] EXCEPT !.status = st, !.finished = (st # "acked")]
<1>1. x \in RowRec /\ x.status = st /\ x.type = rows[r].type /\ x.finished = (st # "acked")
  BY DEF RowRec, Statuses
<1>2. Reported(r, st) = [rows EXCEPT ![r] = x]
  BY DEF Reported
<1> HIDE DEF x
<1> QED BY <1>1, <1>2

LEMMA AckedType ==
    ASSUME TypeOK, NEW r \in Ids, NEW s \in {"acked", "succeeded", "failed"}
    PROVE  Acked(r, s) \in [Conns -> Seq(Report)]
<1>1. CASE agentChannel \in Conns
  <2>1. up[agentChannel] \in Seq(Report) /\ [id |-> r, status |-> s] \in Report
    BY <1>1 DEF TypeOK, Report
  <2>2. Append(up[agentChannel], [id |-> r, status |-> s]) \in Seq(Report)
    BY <2>1
  <2> QED BY <1>1, <2>2 DEF Acked, TypeOK
<1>2. CASE agentChannel \notin Conns
  BY <1>2 DEF Acked, TypeOK
<1> QED BY <1>1, <1>2
-----------------------------------------------------------------------------
(* Type correctness. *)

LEMMA NoFrames == [c \in Conns |-> <<>>] \in [Conns -> Seq(Frame)] /\ [c \in Conns |-> <<>>] \in [Conns -> Seq(Report)]
<1>1. <<>> \in Seq(Frame) /\ <<>> \in Seq(Report)
  OBVIOUS
<1> QED BY <1>1

LEMMA InitTypes == Init => TypeOK
<1> SUFFICES ASSUME Init PROVE TypeOK
  OBVIOUS
<1>1. down \in [Conns -> Seq(Frame)] /\ up \in [Conns -> Seq(Report)]
  BY NoFrames DEF Init
<1>2. /\ rows \in [Ids -> RowRec] /\ drain \in [Drains -> DrainRec]
      /\ channel \in [Conns -> {"new", "open", "closed"}]
  BY Fields DEF Init
<1>3. /\ executed \in [Ids -> Nat] /\ written \in [Ids -> Nat] /\ origin \in [Ids -> 0 .. MaxConns]
      /\ outcome \in [Ids -> {"none", "succeeded", "failed"}]
      /\ turn \in 0 .. MaxRows /\ crashes \in 0 .. MaxCrashes /\ agentChannel \in 0 .. MaxConns
  BY CommandAssumption DEF Init
<1> QED BY <1>1, <1>2, <1>3 DEF Init, TypeOK

LEMMA RequestTypes ==
    ASSUME TypeOK,
           \/ \E t \in Types : Enqueue(t)
           \/ UninstallTenant \/ Suspend \/ Reinstate
           \/ \E c \in Conns : Heartbeat(c)
           \/ AckClearsFlag
           \/ \E r \in Ids : TtlPasses(r) \/ SweepTimedOut(r)
           \/ SweepExpired \/ CleanupDevice \/ ServerRestart
    PROVE  TypeOK'
<1>1. ASSUME NEW t \in Types, Enqueue(t)
      PROVE  TypeOK'
  <2>1. rows' \in [Ids -> RowRec]
    BY <1>1, Fields DEF Enqueue, TypeOK
  <2>2. pending' \in BOOLEAN
    BY <1>1 DEF Enqueue, TypeOK
  <2> QED BY <1>1, <2>1, <2>2 DEF Enqueue, TypeOK, drainVars, netVars, agentVars
<1>2. CASE UninstallTenant \/ Reinstate \/ AckClearsFlag
  BY <1>2 DEF UninstallTenant, Reinstate, AckClearsFlag, TypeOK, drainVars, netVars, agentVars
<1>3. CASE Suspend \/ CleanupDevice
  BY <1>3 DEF Suspend, CleanupDevice, TypeOK, drainVars, agentVars
<1>4. ASSUME NEW c \in Conns, Heartbeat(c)
      PROVE  TypeOK'
  BY <1>4 DEF Heartbeat, TypeOK, serverVars, drainVars, netVars
<1>5. ASSUME NEW r \in Ids, TtlPasses(r)
      PROVE  TypeOK'
  BY <1>5 DEF TtlPasses, TypeOK, drainVars, netVars, agentVars
<1>6. ASSUME NEW r \in Ids, SweepTimedOut(r)
      PROVE  TypeOK'
  <2>1. rows' \in [Ids -> RowRec]
    <3>1. [rows[r] EXCEPT !.status = "failed", !.finished = TRUE] \in RowRec
      BY DEF TypeOK, RowRec, Statuses
    <3>2. rows' = [rows EXCEPT ![r] = [rows[r] EXCEPT !.status = "failed", !.finished = TRUE]]
      BY <1>6 DEF SweepTimedOut, TypeOK
    <3> QED BY <3>1, <3>2 DEF TypeOK
  <2> QED BY <1>6, <2>1 DEF SweepTimedOut, TypeOK, drainVars, netVars, agentVars
<1>7. CASE SweepExpired
  BY <1>7, ExpireFields DEF SweepExpired, TypeOK, drainVars, netVars, agentVars
<1>8. CASE ServerRestart
  <2>1. /\ drain' \in [Drains -> DrainRec] /\ channel' \in [Conns -> {"new", "open", "closed"}]
        /\ crashes' \in 0 .. MaxCrashes
    BY <1>8, Fields, CommandAssumption DEF ServerRestart, TypeOK
  <2> QED BY <1>8, <2>1 DEF ServerRestart, TypeOK, agentVars
<1> QED BY <1>1, <1>2, <1>3, <1>4, <1>5, <1>6, <1>7, <1>8

LEMMA DrainTypes ==
    ASSUME TypeOK, DrainInv, NEW d \in Drains,
           \/ \E c \in Conns, heartbeat \in BOOLEAN : StartDrain(d, c, heartbeat)
           \/ DrainStep(d) \/ PayloadFails(d)
    PROVE  TypeOK'
<1>0. drain[d] \in DrainRec /\ drain[d].hand \in SUBSET Ids /\ drain[d].unsent \in SUBSET Ids
  BY DEF TypeOK, DrainRec
<1>1. ASSUME NEW c \in Conns, NEW heartbeat \in BOOLEAN, StartDrain(d, c, heartbeat)
      PROVE  TypeOK'
  <2>1. ClaimTable \in [Ids -> RowRec]
    BY ClaimTableFields DEF TypeOK
  <2>2. stored' \in BOOLEAN
    BY <1>1 DEF StartDrain, TypeOK
  <2>3. Claimable(ClaimTable, ~stored') \in SUBSET Ids
    BY DEF Claimable
  <2>4. [pc |-> "claim", conn |-> c, legacy |-> ~stored',
         hand |-> Claimable(ClaimTable, ~stored'), unsent |-> {}] \in DrainRec
    BY <2>2, <2>3, CommandAssumption DEF DrainRec, Conns
  <2>5. drain' \in [Drains -> DrainRec] /\ rows' = ClaimTable /\ lock' = {d}
    BY <1>1, <2>4 DEF StartDrain, TypeOK
  <2> QED BY <1>1, <2>1, <2>2, <2>5 DEF StartDrain, TypeOK, netVars
<1>2. CASE ClaimCommit(d)
  <2>1. rows' \in [Ids -> RowRec]
    <3>1. \A r \in Ids : rows[r] \in RowRec /\ Marked(rows[r], drain[d].legacy) \in RowRec
      BY <1>0, MarkedFields DEF TypeOK, DrainRec
    <3> QED BY <1>2, <3>1 DEF ClaimCommit
  <2>2. drain' \in [Drains -> DrainRec]
    <3>1. [drain[d] EXCEPT !.pc = "send"] \in DrainRec
      BY <1>0 DEF DrainRec
    <3>2. drain' = [drain EXCEPT ![d] = [drain[d] EXCEPT !.pc = "send"]]
      BY <1>2 DEF ClaimCommit, TypeOK
    <3> QED BY <3>1, <3>2 DEF TypeOK
  <2> QED BY <1>2, <2>1, <2>2 DEF ClaimCommit, TypeOK, netVars, agentVars
<1>3. ASSUME drain[d].pc = "send"
      PROVE  Oldest(drain[d].hand) \in Ids /\ Oldest(drain[d].hand) \in drain[d].hand
  BY <1>0, <1>3, OldestIn DEF DrainInv, Shape
<1> DEFINE r == Oldest(drain[d].hand)
           c == drain[d].conn
<1>4. CASE SendFrame(d)
  <2>1. r \in Ids /\ c \in Conns /\ drain[d].legacy \in BOOLEAN
    BY <1>0, <1>3, <1>4 DEF SendFrame, DrainInv, Shape, DrainRec
  <2>2. AfterRow(d, r, drain[d].unsent) \in DrainRec
    BY <1>0, <2>1, AfterFields
  <2>3. [id |-> r, legacy |-> drain[d].legacy] \in Frame /\ down[c] \in Seq(Frame)
    BY <2>1 DEF Frame, TypeOK
  <2>4. Append(down[c], [id |-> r, legacy |-> drain[d].legacy]) \in Seq(Frame)
    BY <2>3
  <2>5. /\ down' = [down EXCEPT ![c] = Append(down[c], [id |-> r, legacy |-> drain[d].legacy])]
        /\ written' = [written EXCEPT ![r] = @ + 1]
        /\ drain' = [drain EXCEPT ![d] = AfterRow(d, r, drain[d].unsent)]
    BY <1>4 DEF SendFrame
  <2> HIDE DEF r, c
  <2>6. /\ down' \in [Conns -> Seq(Frame)] /\ written' \in [Ids -> Nat]
        /\ drain' \in [Drains -> DrainRec]
    BY <2>1, <2>2, <2>4, <2>5 DEF TypeOK
  <2> QED BY <1>4, <2>6 DEF SendFrame, TypeOK, serverVars, agentVars
<1>5. CASE SendFails(d)
  <2>1. r \in Ids /\ drain[d].unsent \union {r} \in SUBSET Ids
    BY <1>0, <1>3, <1>5 DEF SendFails
  <2>2. AfterRow(d, r, drain[d].unsent \union {r}) \in DrainRec
    BY <2>1, AfterFields
  <2>3. drain' \in [Drains -> DrainRec]
    BY <1>5, <2>2 DEF SendFails, TypeOK
  <2> QED BY <1>5, <2>3 DEF SendFails, TypeOK, serverVars, netVars, agentVars
<1>6. CASE PayloadFails(d)
  <2>1. r \in Ids
    BY <1>3, <1>6 DEF PayloadFails
  <2>2. AfterRow(d, r, drain[d].unsent) \in DrainRec
    BY <1>0, <2>1, AfterFields
  <2>3. drain' \in [Drains -> DrainRec]
    BY <1>6, <2>2 DEF PayloadFails, TypeOK
  <2>4. [rows EXCEPT ![r].status = "failed", ![r].finished = TRUE] \in [Ids -> RowRec]
    <3>1. rows \in [Ids -> RowRec] /\ rows[r] \in RowRec
      BY <2>1 DEF TypeOK
    <3>2. [rows[r] EXCEPT !.status = "failed", !.finished = TRUE] \in RowRec
      BY <3>1 DEF RowRec, Statuses
    <3> QED BY <2>1, <3>1, <3>2
  <2>5. rows' \in [Ids -> RowRec]
    BY <1>6, <2>4 DEF PayloadFails, TypeOK
  <2> QED BY <1>6, <2>3, <2>5 DEF PayloadFails, TypeOK, netVars, agentVars
<1>7. CASE Requeue(d)
  <2>1. rows' \in [Ids -> RowRec]
    <3>1. \A q \in Ids : rows[q] \in RowRec /\ NewRow(rows[q].type) \in RowRec
      BY Fields DEF TypeOK, RowRec
    <3> QED BY <1>7, <3>1 DEF Requeue, TypeOK
  <2>2. [drain[d] EXCEPT !.pc = "flag", !.unsent = {}] \in DrainRec
    BY <1>0 DEF DrainRec
  <2>3. drain' \in [Drains -> DrainRec]
    BY <1>7, <2>2, Fields DEF Requeue, TypeOK
  <2> QED BY <1>7, <2>1, <2>3 DEF Requeue, TypeOK, netVars, agentVars
<1>8. CASE RequeueFlags(d)
  BY <1>8, Fields DEF RequeueFlags, TypeOK, netVars, agentVars
<1> QED BY <1>1, <1>2, <1>4, <1>5, <1>6, <1>7, <1>8 DEF DrainStep

LEMMA AgentTypes ==
    ASSUME TypeOK,
           \/ \E c \in Conns : \/ ReceiveAck(c) \/ AgentConnect(c) \/ ServerDisconnect(c)
                               \/ ReceiveCommand(c) \/ ReceiveLegacy(c)
           \/ AgentDisconnect \/ OtherRegisters
           \/ \E r \in Ids : TakeTurn(r) \/ \E result \in {"succeeded", "failed"} : Finish(r, result)
           \/ AgentRestart \/ AgentExit
    PROVE  TypeOK'
<1>1. ASSUME NEW c \in Conns, ReceiveAck(c)
      PROVE  TypeOK'
  <2>1. up[c] \in Seq(Report) /\ up[c] # <<>>
    BY <1>1 DEF ReceiveAck, TypeOK
  <2>2. Head(up[c]) \in Report /\ Tail(up[c]) \in Seq(Report)
    BY <2>1
  <2>3. up' \in [Conns -> Seq(Report)]
    BY <1>1, <2>2 DEF ReceiveAck, TypeOK
  <2>4. Head(up[c]).id \in Ids /\ Head(up[c]).status \in {"acked", "succeeded", "failed"}
    BY <2>2 DEF Report
  <2>5. Reported(Head(up[c]).id, Head(up[c]).status) \in [Ids -> RowRec]
    BY <2>4, ReportedFields DEF TypeOK
  <2>6. rows' \in [Ids -> RowRec] /\ ackClears' \in BOOLEAN
    BY <1>1, <2>5 DEF ReceiveAck, TypeOK, Reported
  <2> QED BY <1>1, <2>3, <2>6 DEF ReceiveAck, TypeOK, drainVars, agentVars
<1>2. ASSUME NEW c \in Conns, AgentConnect(c) \/ ServerDisconnect(c)
      PROVE  TypeOK'
  <2>1. channel' \in [Conns -> {"new", "open", "closed"}]
    BY <1>2 DEF AgentConnect, ServerDisconnect, TypeOK
  <2>2. c \in 0 .. MaxConns
    BY CommandAssumption DEF Conns
  <2> QED BY <1>2, <2>1, <2>2 DEF AgentConnect, ServerDisconnect, TypeOK, serverVars, drainVars, agentVars
<1>3. ASSUME NEW c \in Conns, ReceiveCommand(c) \/ ReceiveLegacy(c)
      PROVE  TypeOK'
  <2>1. down[c] \in Seq(Frame) /\ down[c] # <<>>
    BY <1>3 DEF ReceiveCommand, ReceiveLegacy, TypeOK
  <2>2. Head(down[c]) \in Frame /\ Tail(down[c]) \in Seq(Frame)
    BY <2>1
  <2>3. down' \in [Conns -> Seq(Frame)]
    BY <1>3, <2>2 DEF ReceiveCommand, ReceiveLegacy, TypeOK
  <2>4. Head(down[c]).id \in Ids /\ c \in 0 .. MaxConns
    BY <2>2, CommandAssumption DEF Frame, Conns
  <2>5. CASE ReceiveCommand(c)
    BY <2>3, <2>4, <2>5 DEF ReceiveCommand, TypeOK, serverVars, drainVars
  <2>6. CASE ReceiveLegacy(c)
    <3> DEFINE r == Head(down[c]).id
    <3>1. /\ executed' = [executed EXCEPT ![r] = @ + 1]
          /\ \/ agent' = "exiting" /\ outcome' = [outcome EXCEPT ![r] = "succeeded"]
             \/ agent' = agent /\ outcome' = [outcome EXCEPT ![r] = "failed"]
      BY <2>6 DEF ReceiveLegacy
    <3>2. r \in Ids
      BY <2>4
    <3> HIDE DEF r
    <3>3. executed' \in [Ids -> Nat]
      BY <3>1, <3>2 DEF TypeOK
    <3>4. agent' \in {"running", "restarting", "exiting", "gone"}
      BY <3>1 DEF TypeOK
    <3>5. outcome' \in [Ids -> {"none", "succeeded", "failed"}]
      BY <3>1, <3>2 DEF TypeOK
    <3> QED BY <2>3, <2>6, <3>3, <3>4, <3>5 DEF ReceiveLegacy, TypeOK, serverVars, drainVars
  <2> QED BY <1>3, <2>5, <2>6
<1>4. CASE AgentDisconnect
  <2>1. <<>> \in Seq(Frame) /\ 0 \in 0 .. MaxConns
    BY CommandAssumption
  <2>2. down' \in [Conns -> Seq(Frame)]
    BY <1>4, <2>1 DEF AgentDisconnect, TypeOK
  <2> QED BY <1>4, <2>1, <2>2 DEF AgentDisconnect, TypeOK, serverVars, drainVars, agentVars
<1>5. ASSUME NEW r \in Ids, TakeTurn(r)
      PROVE  TypeOK'
  <2>1. up' \in [Conns -> Seq(Report)]
    BY <1>5, AckedType DEF TakeTurn
  <2>2. r \in 0 .. MaxRows
    BY CommandAssumption DEF Ids
  <2> QED BY <1>5, <2>1, <2>2 DEF TakeTurn, TypeOK, serverVars, drainVars
<1>6. ASSUME NEW r \in Ids, NEW result \in {"succeeded", "failed"}, Finish(r, result)
      PROVE  TypeOK'
  <2>1. up' \in [Conns -> Seq(Report)]
    BY <1>6, AckedType DEF Finish
  <2>2. /\ executed' \in [Ids -> Nat] /\ outcome' \in [Ids -> {"none", "succeeded", "failed"}]
        /\ agent' \in {"running", "restarting", "exiting", "gone"} /\ turn' \in 0 .. MaxRows
    BY <1>6, CommandAssumption DEF Finish, TypeOK
  <2> QED BY <1>6, <2>1, <2>2 DEF Finish, TypeOK, serverVars, drainVars
<1>7. CASE AgentRestart \/ AgentExit
  <2>1. down' \in [Conns -> Seq(Frame)]
    BY <1>7, NoFrames, Zenon DEF AgentRestart, AgentExit
  <2>2. 0 \in 0 .. MaxConns /\ 0 \in 0 .. MaxRows
    BY CommandAssumption
  <2> QED BY <1>7, <2>1, <2>2 DEF AgentRestart, AgentExit, TypeOK, serverVars, drainVars
<1>8. CASE OtherRegisters
  BY <1>8 DEF OtherRegisters, TypeOK, serverVars, netVars, agentVars
<1> QED BY <1>1, <1>2, <1>3, <1>4, <1>5, <1>6, <1>7, <1>8

LEMMA NextTypes ==
    ASSUME TypeOK, DrainInv, [Next]_vars
    PROVE  TypeOK'
<1>1. CASE UNCHANGED vars
  BY <1>1 DEF TypeOK, vars, serverVars, drainVars, netVars, agentVars
<1>2. CASE Next
  BY <1>2, RequestTypes, DrainTypes, AgentTypes DEF Next
<1> QED BY <1>1, <1>2
-----------------------------------------------------------------------------
(* What a step does to the rows, and why claimed rows stay claimed. *)

Expires(r) == /\ rows[r].status = "queued" /\ rows'[r].status = "expired"
              /\ rows'[r].finished /\ rows'[r].type = rows[r].type
Appears(r) == /\ rows[r].status = "none" /\ rows'[r].status = "queued"
              /\ ~rows'[r].finished /\ rows'[r].type \in Types
Answers(r) == /\ rows[r].status \in {"sent", "acked"} /\ rows'[r].type = rows[r].type
              /\ \/ rows'[r].status = "acked" /\ ~rows[r].finished /\ ~rows'[r].finished
                 \/ rows'[r].status \in {"succeeded", "failed"} /\ rows'[r].finished

RowMove(r) == rows'[r] = rows[r] \/ Expires(r) \/ Appears(r) \/ Answers(r)

LEMMA MovesRows ==
    ASSUME RowsInv, \A r \in Ids : RowMove(r)
    PROVE  RowsInv'
<1>1. \A t \in Types : t # "none"
  BY CommandAssumption
<1> QED BY <1>1 DEF RowsInv, RowMove, Expires, Appears, Answers

LEMMA MovesHeld ==
    ASSUME TypeOK, NEW d \in Drains, Claimed(d), \A r \in Ids : RowMove(r),
           Held(d)' \subseteq Held(d),
           drain'[d].pc = "claim" => drain[d].pc = "claim",
           Held(d)' = {} \/ (drain[d].pc = "claim" => drain'[d].pc = "claim")
    PROVE  Claimed(d)'
<1>1. Held(d) \subseteq Ids
  BY DEF Held, TypeOK, DrainRec
<1>2. ASSUME NEW r \in Held(d)
      PROVE  /\ rows'[r].type = rows[r].type
             /\ rows[r].status \in {"queued", "expired"} => rows'[r].status \in {"queued", "expired"}
             /\ rows[r].status \notin {"none", "queued"} => rows'[r].status \notin {"none", "queued"}
  <2>1. RowMove(r) /\ rows[r].status # "none"
    BY <1>1, <1>2 DEF Claimed
  <2> QED BY <2>1 DEF RowMove, Expires, Appears, Answers
<1> QED BY <1>2 DEF Claimed

\* Rows that close, or stay as open as they were.
LEMMA OpenKept ==
    ASSUME OneOutstanding,
           \A r \in Ids : Open(rows'[r]) => Open(rows[r]) /\ rows'[r].type = rows[r].type
    PROVE  OneOutstanding'
BY DEF OneOutstanding, Open

\* A row opened while none of its type was.
LEMMA OpenAdded ==
    ASSUME OneOutstanding, NEW n \in Ids, NEW t, ~Outstanding(t), rows'[n].type = t,
           \A r \in Ids : r # n /\ Open(rows'[r]) => Open(rows[r]) /\ rows'[r].type = rows[r].type
    PROVE  OneOutstanding'
BY DEF OneOutstanding, Open, Outstanding

LEMMA MovesOpen ==
    ASSUME RowsInv, OneOutstanding, \A r \in Ids : RowMove(r),
           \A r \in Ids : ~Appears(r)
    PROVE  OneOutstanding'
<1>1. \A r \in Ids : Open(rows'[r]) => Open(rows[r]) /\ rows'[r].type = rows[r].type
  BY DEF RowsInv, RowMove, Expires, Answers, Open
<1> QED BY <1>1, OpenKept
-----------------------------------------------------------------------------
(* The queue. *)

\* Steps on the rows alone.
LEMMA RowStepsKeep ==
    ASSUME TypeOK, QueueInv, UNCHANGED <<drain, lock>>, \A r \in Ids : RowMove(r), OneOutstanding'
    PROVE  QueueInv'
<1>1. RowsInv'
  BY MovesRows DEF QueueInv
<1>2. \A d \in Drains : Held(d)' = Held(d)
  BY DEF Held
<1>3. ASSUME NEW d \in Drains
      PROVE  Shape(d)' /\ Claimed(d)'
  <2>1. Claimed(d)'
    BY <1>2, MovesHeld DEF QueueInv, DrainInv
  <2>2. Shape(d)'
    BY <1>2 DEF QueueInv, DrainInv, Shape
  <2> QED BY <2>1, <2>2
<1>4. Disjoint'
  BY <1>2 DEF QueueInv, Disjoint
<1> QED BY <1>1, <1>3, <1>4 DEF QueueInv, DrainInv

LEMMA EnqueueKeeps ==
    ASSUME TypeOK, QueueInv, NEW t \in Types, Enqueue(t)
    PROVE  (\A r \in Ids : RowMove(r)) /\ QueueInv'
<1>1. NextId \in Ids /\ rows[NextId] = NoRow
  BY NextIdUnused DEF Enqueue, Unused
<1>2. rows' = [rows EXCEPT ![NextId] = NewRow(t)] /\ ~Outstanding(t)
  BY DEF Enqueue
<1>3. /\ rows'[NextId] = NewRow(t)
      /\ \A r \in Ids : r # NextId => rows'[r] = rows[r]
  BY <1>1, <1>2 DEF TypeOK
<1>4. \A r \in Ids : RowMove(r)
  BY <1>1, <1>3, Fields DEF RowMove, Appears
<1>5. OneOutstanding'
  <2>1. rows'[NextId].type = t
    BY <1>3, Fields
  <2> QED BY <1>1, <1>2, <1>3, <2>1, OpenAdded DEF QueueInv
<1> QED BY <1>4, <1>5, RowStepsKeep DEF Enqueue, drainVars

LEMMA AckKeeps ==
    ASSUME TypeOK, QueueInv, NEW c \in Conns, ReceiveAck(c)
    PROVE  (\A r \in Ids : RowMove(r)) /\ QueueInv'
<1> DEFINE m == Head(up[c])
<1>1. m \in Report
  <2>1. up[c] \in Seq(Report) /\ up[c] # <<>>
    BY DEF ReceiveAck, TypeOK
  <2> QED BY <2>1
<1>2. m.id \in Ids /\ m.status \in {"acked", "succeeded", "failed"}
  BY <1>1 DEF Report
<1>3. \/ rows' = rows
      \/ AckApplies(rows[m.id], m.status) /\ rows' = Reported(m.id, m.status)
  BY DEF ReceiveAck, Reported
<1> HIDE DEF m
<1>4. ASSUME NEW r \in Ids
      PROVE  RowMove(r) /\ ~Appears(r)
  <2>1. CASE rows' = rows
    BY <2>1 DEF RowMove, Appears
  <2>2. CASE AckApplies(rows[m.id], m.status) /\ rows' = Reported(m.id, m.status)
    <3>1. /\ rows'[m.id].status = m.status /\ rows'[m.id].type = rows[m.id].type
          /\ rows'[m.id].finished = (m.status # "acked")
          /\ r # m.id => rows'[r] = rows[r]
      BY <1>2, <2>2, ReportedFields DEF TypeOK
    <3>2. Answers(m.id)
      BY <1>2, <2>2, <3>1 DEF AckApplies, Answers
    <3> QED BY <3>1, <3>2 DEF RowMove, Answers, Appears
  <2> QED BY <1>3, <2>1, <2>2
<1>5. OneOutstanding'
  BY <1>4, MovesOpen DEF QueueInv
<1> QED BY <1>4, <1>5, RowStepsKeep DEF ReceiveAck, drainVars

LEMMA SweepKeeps ==
    ASSUME TypeOK, QueueInv, SweepExpired \/ \E r \in Ids : SweepTimedOut(r)
    PROVE  (\A r \in Ids : RowMove(r)) /\ QueueInv'
<1>1. UNCHANGED <<drain, lock>>
  BY DEF SweepExpired, SweepTimedOut, drainVars
<1>2. ASSUME NEW r \in Ids
      PROVE  RowMove(r) /\ ~Appears(r)
  <2>1. CASE SweepExpired
    <3>1. rows' = ExpireAll(rows, due)
      BY <2>1 DEF SweepExpired
    <3>2. rows'[r] = rows[r] \/ Expires(r)
      BY <3>1, ExpireFields DEF TypeOK, Expires
    <3> QED BY <3>2 DEF RowMove, Appears, Expires
  <2>2. ASSUME NEW q \in Ids, SweepTimedOut(q)
        PROVE  RowMove(r) /\ ~Appears(r)
    <3>1. rows' = [rows EXCEPT ![q].status = "failed", ![q].finished = TRUE] /\ TimesOut(rows[q])
      BY <2>2 DEF SweepTimedOut
    <3>2. rows' = Reported(q, "failed")
      BY <3>1 DEF Reported
    <3>3. /\ rows'[q].status = "failed" /\ rows'[q].type = rows[q].type /\ rows'[q].finished
          /\ r # q => rows'[r] = rows[r]
      BY <3>2, ReportedFields DEF TypeOK
    <3>4. Answers(q)
      BY <3>1, <3>3 DEF TimesOut, Answers
    <3> QED BY <3>3, <3>4 DEF RowMove, Answers, Appears
  <2> QED BY <2>1, <2>2
<1>3. OneOutstanding'
  BY <1>2, MovesOpen DEF QueueInv
<1> QED BY <1>1, <1>2, <1>3, RowStepsKeep

\* A drain starts: it claims queued rows, which no other drain holds.
LEMMA StartKeeps ==
    ASSUME TypeOK, QueueInv, NEW d \in Drains, NEW c \in Conns, NEW heartbeat \in BOOLEAN,
           StartDrain(d, c, heartbeat)
    PROVE  (\A r \in Ids : RowMove(r)) /\ QueueInv'
<1> DEFINE hand == Claimable(ClaimTable, ~stored')
<1>1. /\ rows' = ClaimTable /\ hand # {} /\ lock = {} /\ lock' = {d} /\ drain[d].pc = "idle"
      /\ drain' = [drain EXCEPT ![d] = [pc |-> "claim", conn |-> c, legacy |-> ~stored',
                                        hand |-> hand, unsent |-> {}]]
  BY DEF StartDrain
<1>2. /\ drain'[d].pc = "claim" /\ drain'[d].conn = c /\ drain'[d].hand = hand
      /\ drain'[d].unsent = {}
      /\ \A e \in Drains : e # d => drain'[e] = drain[e]
  BY <1>1 DEF TypeOK
<1>3. hand \subseteq Ids /\ \A r \in hand : rows'[r].status = "queued"
  BY <1>1 DEF Claimable
<1> HIDE DEF hand
<1>4. \A r \in Ids :
        \/ rows'[r] = rows[r] \/ Expires(r)
        \/ Appears(r) /\ r = NextId /\ ~Outstanding("uninstall") /\ rows'[r].type = "uninstall"
  <2>1. NewRow("uninstall").status = "queued" /\ NewRow("uninstall").type = "uninstall"
        /\ ~NewRow("uninstall").finished
    BY Fields, CommandAssumption
  <2> QED BY <1>1, <2>1, ClaimTableFields, CommandAssumption DEF TypeOK, Expires, Appears
<1>5. \A r \in Ids : RowMove(r)
  BY <1>4 DEF RowMove
<1>6. RowsInv'
  BY <1>5, MovesRows DEF QueueInv
<1>7. OneOutstanding'
  <2>1. CASE \A r \in Ids : ~Appears(r)
    BY <1>5, <2>1, MovesOpen DEF QueueInv
  <2>2. ASSUME NEW n \in Ids, Appears(n)
        PROVE  OneOutstanding'
    <3>1. n = NextId /\ ~Outstanding("uninstall") /\ rows'[n].type = "uninstall"
      BY <1>4, <2>2 DEF Appears, Expires
    <3>2. ASSUME NEW r \in Ids, r # n, Open(rows'[r])
          PROVE  Open(rows[r]) /\ rows'[r].type = rows[r].type
      BY <1>4, <3>1, <3>2 DEF Expires, Open
    <3> QED BY <3>1, <3>2, OpenAdded DEF QueueInv
  <2> QED BY <2>1, <2>2
<1>8. /\ Held(d)' = hand
      /\ \A e \in Drains : e # d => Held(e)' = Held(e) /\ drain[e].pc # "claim"
  BY <1>1, <1>2 DEF Held, QueueInv, DrainInv, Shape
<1>9. ASSUME NEW e \in Drains, e # d
      PROVE  Shape(e)' /\ Claimed(e)'
  <2>1. Claimed(e)'
    BY <1>2, <1>5, <1>8, <1>9, MovesHeld DEF QueueInv, DrainInv
  <2>2. Shape(e)'
    BY <1>2, <1>8, <1>9 DEF QueueInv, DrainInv, Shape
  <2> QED BY <2>1, <2>2
<1>10. Shape(d)' /\ Claimed(d)'
  <2>1. ASSUME NEW r \in hand, NEW q \in hand, r # q
        PROVE  rows'[r].type # rows'[q].type
    <3>1. rows'[r].type # "none" /\ Open(rows'[r]) /\ Open(rows'[q])
      BY <1>3, <1>6 DEF RowsInv, Open
    <3> QED BY <1>3, <1>7, <2>1, <3>1 DEF OneOutstanding, Open
  <2> QED BY <1>1, <1>2, <1>3, <1>8, <2>1 DEF Shape, Claimed
<1>11. Disjoint'
  <2>1. ASSUME NEW e \in Drains, e # d, NEW r \in Held(e)'
        PROVE  r \notin hand
    BY <1>2, <1>3, <1>8, <1>9, <2>1 DEF Claimed
  <2>2. \A e \in Drains : e # d => Held(e)' \cap hand = {}
    BY <2>1
  <2> QED BY <1>8, <2>2 DEF QueueInv, Disjoint
<1> QED BY <1>5, <1>6, <1>7, <1>9, <1>10, <1>11 DEF QueueInv, DrainInv

\* claim commits: what it held becomes 'sent'.
LEMMA CommitKeeps ==
    ASSUME TypeOK, QueueInv, NEW d \in Drains, ClaimCommit(d)
    PROVE  QueueInv'
<1>1. /\ drain[d].pc = "claim" /\ lock = {d} /\ lock' = {}
      /\ drain[d] \in DrainRec /\ drain[d].hand \subseteq Ids /\ drain[d].unsent = {}
      /\ \A r \in drain[d].hand : rows[r].status \in {"queued", "expired"}
  BY DEF ClaimCommit, QueueInv, DrainInv, Shape, Claimed, Held, TypeOK, DrainRec
<1>2. ASSUME NEW r \in Ids
      PROVE  /\ r \notin drain[d].hand => rows'[r] = rows[r]
             /\ r \in drain[d].hand => /\ rows'[r].status = "sent" /\ rows'[r].type = rows[r].type
                                       /\ rows'[r].finished = (rows[r].finished \/ drain[d].legacy)
  <2>1. /\ rows'[r] = IF r \in drain[d].hand THEN Marked(rows[r], drain[d].legacy) ELSE rows[r]
        /\ rows[r] \in RowRec /\ drain[d].legacy \in BOOLEAN
    BY <1>1 DEF ClaimCommit, TypeOK, DrainRec
  <2> QED BY <2>1, MarkedFields
<1>3. /\ drain'[d].pc = "send" /\ drain'[d].conn = drain[d].conn /\ drain'[d].hand = drain[d].hand
      /\ drain'[d].unsent = drain[d].unsent
      /\ \A e \in Drains : e # d => drain'[e] = drain[e]
  BY <1>1 DEF ClaimCommit, TypeOK, DrainRec
<1>4. \A e \in Drains : Held(e)' = Held(e) /\ Held(e) \subseteq Ids
  BY <1>3 DEF Held, TypeOK, DrainRec
<1>5. RowsInv'
  BY <1>1, <1>2 DEF QueueInv, RowsInv
<1>6. OneOutstanding'
  <2>1. ASSUME NEW r \in Ids, Open(rows'[r])
        PROVE  Open(rows[r]) /\ rows'[r].type = rows[r].type
    BY <1>1, <1>2, <2>1 DEF QueueInv, RowsInv, Open
  <2> QED BY <2>1, OpenKept DEF QueueInv
<1>7. ASSUME NEW e \in Drains, e # d
      PROVE  Shape(e)' /\ Claimed(e)'
  <2>1. drain[e].pc # "claim" /\ drain'[e] = drain[e]
    BY <1>1, <1>3, <1>7 DEF QueueInv, DrainInv, Shape
  <2>2. \A r \in Held(e) : rows'[r] = rows[r]
    BY <1>2, <1>4, <1>7 DEF QueueInv, Disjoint, Held
  <2>3. Claimed(e)'
    BY <1>4, <2>1, <2>2 DEF QueueInv, DrainInv, Claimed
  <2>4. Shape(e)'
    BY <1>4, <2>1 DEF QueueInv, DrainInv, Shape
  <2> QED BY <2>3, <2>4
<1>8. Shape(d)'
  BY <1>1, <1>3, <1>4 DEF QueueInv, DrainInv, Shape
<1>9. Claimed(d)'
  <2>1. Held(d) = drain[d].hand
    BY <1>1 DEF Held
  <2> QED BY <1>1, <1>2, <1>3, <1>4, <2>1 DEF QueueInv, DrainInv, Claimed
<1>10. Disjoint'
  BY <1>4 DEF QueueInv, Disjoint
<1> QED BY <1>5, <1>6, <1>7, <1>8, <1>9, <1>10 DEF QueueInv, DrainInv

\* Rows leave the hand of one drain, closed or not.
LEMMA DropKeeps ==
    ASSUME TypeOK, QueueInv, NEW d \in Drains, \A r \in Ids : RowMove(r) /\ ~Appears(r),
           \A e \in Drains : e # d => drain'[e] = drain[e],
           drain[d].pc # "claim", drain'[d].pc # "claim", Held(d)' \subseteq Held(d),
           UNCHANGED lock, Shape(d)'
    PROVE  QueueInv'
<1>1. RowsInv' /\ OneOutstanding'
  BY MovesRows, MovesOpen DEF QueueInv
<1>2. \A e \in Drains : e # d => Held(e)' = Held(e)
  BY DEF Held
<1>3. ASSUME NEW e \in Drains
      PROVE  Shape(e)' /\ Claimed(e)'
  <2>1. Claimed(e)'
    BY <1>2, MovesHeld DEF QueueInv, DrainInv
  <2>2. e # d => Shape(e)'
    BY <1>2 DEF QueueInv, DrainInv, Shape
  <2> QED BY <2>1, <2>2
<1>4. Disjoint'
  BY <1>2 DEF QueueInv, Disjoint
<1> QED BY <1>1, <1>3, <1>4 DEF QueueInv, DrainInv

LEMMA SendKeeps ==
    ASSUME TypeOK, QueueInv, NEW d \in Drains, SendFrame(d) \/ SendFails(d) \/ PayloadFails(d)
    PROVE  (\A r \in Ids : RowMove(r)) /\ QueueInv'
<1> DEFINE r == Oldest(drain[d].hand)
<1>1. /\ drain[d].pc = "send" /\ drain[d].hand \in SUBSET Ids /\ drain[d].unsent \in SUBSET Ids
      /\ drain[d].hand # {} /\ drain[d].conn \in Conns
      /\ drain[d].hand \cap drain[d].unsent = {}
  BY DEF SendFrame, SendFails, PayloadFails, QueueInv, DrainInv, Shape, TypeOK, DrainRec
<1>2. r \in drain[d].hand /\ r \in Ids
  BY <1>1, OldestIn
<1>3. PICK u \in {drain[d].unsent, drain[d].unsent \union {r}} :
         drain' = [drain EXCEPT ![d] = AfterRow(d, r, u)]
  BY DEF SendFrame, SendFails, PayloadFails
<1>4. /\ \A e \in Drains : e # d => drain'[e] = drain[e]
      /\ drain'[d] = AfterRow(d, r, u) /\ UNCHANGED lock /\ u \in SUBSET Ids
  BY <1>1, <1>2, <1>3 DEF SendFrame, SendFails, PayloadFails, TypeOK
<1>5. \A q \in Ids : RowMove(q) /\ ~Appears(q)
  <2>1. CASE rows' = rows
    BY <2>1 DEF RowMove, Appears
  <2>2. CASE /\ PayloadFails(d) /\ rows[r].status \in {"queued", "sent", "acked"}
             /\ rows' = [rows EXCEPT ![r].status = "failed", ![r].finished = TRUE]
    <3>1. rows' = Reported(r, "failed")
      BY <2>2 DEF Reported
    <3>2. /\ rows'[r].status = "failed" /\ rows'[r].type = rows[r].type /\ rows'[r].finished
          /\ \A q \in Ids : q # r => rows'[q] = rows[q]
      BY <1>2, <3>1, ReportedFields DEF TypeOK
    <3>3. rows[r].status # "queued"
      BY <1>1, <1>2 DEF QueueInv, DrainInv, Claimed, Held
    <3>4. Answers(r)
      BY <2>2, <3>2, <3>3 DEF Answers
    <3> QED BY <3>2, <3>4 DEF RowMove, Answers, Appears
  <2> QED BY <2>1, <2>2 DEF SendFrame, SendFails, PayloadFails, serverVars
<1>6. /\ drain'[d].hand = drain[d].hand \ {r} /\ drain'[d].unsent = u
      /\ drain'[d].conn = drain[d].conn /\ drain'[d].pc \in {"send", "requeue", "idle"}
      /\ drain'[d].pc = "send" => drain[d].hand \ {r} # {}
      /\ drain'[d].pc = "requeue" => drain[d].hand \ {r} = {}
      /\ drain'[d].pc = "idle" => drain[d].hand \ {r} = {} /\ u = {}
  <2> HIDE DEF r
  <2> QED BY <1>2, <1>4, AfterFields
<1>7. Held(d)' \subseteq Held(d)
  BY <1>2, <1>3, <1>6 DEF Held
<1>8. Shape(d)'
  BY <1>1, <1>3, <1>6 DEF Shape, Held
<1> QED BY <1>1, <1>4, <1>5, <1>6, <1>7, <1>8, DropKeeps

\* What could not be written goes back to the queue.
LEMMA RequeueKeeps ==
    ASSUME TypeOK, QueueInv, NEW d \in Drains, Requeue(d)
    PROVE  QueueInv'
<1>1. /\ drain[d].pc = "requeue" /\ drain[d].hand = {} /\ drain[d].conn \in Conns
      /\ drain[d] \in DrainRec /\ UNCHANGED lock
  BY DEF Requeue, QueueInv, DrainInv, Shape, TypeOK
<1>2. /\ Held(d)' = {} /\ Shape(d)' /\ drain'[d].pc # "claim"
      /\ \A e \in Drains : e # d => drain'[e] = drain[e]
  <2>1. [drain[d] EXCEPT !.pc = "flag", !.unsent = {}].hand = {}
        /\ [drain[d] EXCEPT !.pc = "flag", !.unsent = {}].unsent = {}
        /\ [drain[d] EXCEPT !.pc = "flag", !.unsent = {}].pc = "flag"
        /\ [drain[d] EXCEPT !.pc = "flag", !.unsent = {}].conn \in Conns
    BY <1>1 DEF DrainRec
  <2>2. drain'[d] \in {[drain[d] EXCEPT !.pc = "flag", !.unsent = {}], IdleDrain}
        /\ \A e \in Drains : e # d => drain'[e] = drain[e]
    BY DEF Requeue, TypeOK
  <2>3. Held(d)' = {} /\ drain'[d].pc \in {"flag", "idle"} /\ drain'[d].hand = {} /\ drain'[d].unsent = {}
        /\ (drain'[d].pc # "idle" => drain'[d].conn \in Conns)
    BY <2>1, <2>2, Fields DEF Held
  <2> QED BY <2>2, <2>3 DEF Shape
<1>3. CASE rows' = rows
  BY <1>1, <1>2, <1>3, DropKeeps DEF RowMove, Appears
<1>4. CASE /\ ~Refused(d)
           /\ rows' = [r \in Ids |-> IF r \in Returning(d) THEN NewRow(rows[r].type) ELSE rows[r]]
  <2>1. /\ Returning(d) \subseteq drain[d].unsent /\ Returning(d) \subseteq Ids
        /\ Returning(d) \subseteq Held(d)
        /\ \A r \in Returning(d) : rows[r].status = "sent"
    BY <1>1 DEF Returning, DrainRec, Held
  <2>2. ASSUME NEW r \in Ids
        PROVE  /\ r \in Returning(d) => /\ rows'[r].status = "queued" /\ rows'[r].type = rows[r].type
                                        /\ ~rows'[r].finished
               /\ r \notin Returning(d) => rows'[r] = rows[r]
    <3>1. rows[r].type \in Types \union {"none"}
      BY DEF TypeOK, RowRec
    <3> QED BY <1>4, <3>1, Fields
  <2>3. RowsInv'
    BY <2>1, <2>2 DEF QueueInv, RowsInv
  <2>4. OneOutstanding'
    <3>1. SUFFICES ASSUME NEW r \in Ids, NEW q \in Ids, r # q, rows'[r].type = rows'[q].type,
                          Open(rows'[r]), Open(rows'[q])
                   PROVE  rows'[r].type = "none"
      BY DEF OneOutstanding, Open
    <3>2. CASE r \in Returning(d) /\ q \in Returning(d)
      BY <2>1, <2>2, <3>1, <3>2 DEF QueueInv, DrainInv, Claimed
    <3>3. CASE r \in Returning(d) /\ q \notin Returning(d)
      BY <1>4, <2>2, <3>1, <3>3 DEF Refused
    <3>4. CASE r \notin Returning(d) /\ q \in Returning(d)
      BY <1>4, <2>2, <3>1, <3>4 DEF Refused
    <3>5. CASE r \notin Returning(d) /\ q \notin Returning(d)
      BY <2>2, <3>1, <3>5 DEF QueueInv, OneOutstanding, Open
    <3> QED BY <3>2, <3>3, <3>4, <3>5
  <2>5. ASSUME NEW e \in Drains, e # d
        PROVE  Shape(e)' /\ Claimed(e)' /\ Held(e)' = Held(e)
    <3>1. Held(e)' = Held(e) /\ Held(e) \subseteq Ids
      BY <1>2, <2>5 DEF Held, TypeOK, DrainRec
    <3>2. \A r \in Held(e) : rows'[r] = rows[r]
      BY <2>1, <2>2, <2>5, <3>1 DEF QueueInv, Disjoint
    <3>3. Claimed(e)'
      BY <1>2, <2>5, <3>1, <3>2 DEF QueueInv, DrainInv, Claimed
    <3>4. Shape(e)'
      BY <1>1, <1>2, <2>5, <3>1 DEF QueueInv, DrainInv, Shape
    <3> QED BY <3>1, <3>3, <3>4
  <2>6. Claimed(d)'
    BY <1>2 DEF Claimed
  <2>7. Disjoint'
    BY <1>2, <2>5 DEF QueueInv, Disjoint
  <2> QED BY <1>2, <2>3, <2>4, <2>5, <2>6, <2>7 DEF QueueInv, DrainInv
<1> QED BY <1>3, <1>4 DEF Requeue

LEMMA EndKeeps ==
    ASSUME TypeOK, QueueInv, ServerRestart \/ \E d \in Drains : RequeueFlags(d)
    PROVE  QueueInv'
<1>1. CASE ServerRestart
  <2>1. \A d \in Drains : drain'[d] = IdleDrain
    BY <1>1 DEF ServerRestart
  <2>2. \A d \in Drains : Held(d)' = {} /\ drain'[d].pc = "idle"
    BY <2>1, Fields DEF Held
  <2>3. \A d \in Drains : Shape(d)' /\ Claimed(d)'
    BY <2>1, <2>2, Fields DEF Shape, Claimed
  <2> QED BY <1>1, <2>2, <2>3 DEF ServerRestart, QueueInv, DrainInv, Disjoint, RowsInv, OneOutstanding
<1>2. ASSUME NEW d \in Drains, RequeueFlags(d)
      PROVE  QueueInv'
  <2>1. /\ drain'[d] = IdleDrain /\ \A e \in Drains : e # d => drain'[e] = drain[e]
        /\ drain[d].pc # "claim" /\ UNCHANGED <<rows, lock>>
    BY <1>2 DEF RequeueFlags, TypeOK
  <2>2. Held(d)' = {} /\ Shape(d)' /\ drain'[d].pc # "claim"
    BY <2>1, Fields DEF Held, Shape
  <2> QED BY <2>1, <2>2, DropKeeps DEF RowMove, Appears
<1> QED BY <1>1, <1>2

\* Every other step leaves rows and drains alone.
LEMMA QuietSteps ==
    ASSUME [Next]_vars
    PROVE  \/ UNCHANGED <<rows, drain, lock>>
           \/ \E t \in Types : Enqueue(t)
           \/ \E c \in Conns : ReceiveAck(c)
           \/ SweepExpired \/ \E r \in Ids : SweepTimedOut(r)
           \/ \E d \in Drains, c \in Conns, heartbeat \in BOOLEAN : StartDrain(d, c, heartbeat)
           \/ \E d \in Drains : DrainStep(d) \/ PayloadFails(d)
           \/ ServerRestart
BY DEF Next, UninstallTenant, Suspend, Reinstate, Heartbeat, AckClearsFlag, TtlPasses, CleanupDevice,
       AgentConnect, OtherRegisters, ServerDisconnect, AgentDisconnect, ReceiveCommand, ReceiveLegacy, TakeTurn,
       Finish, AgentRestart, AgentExit, vars, serverVars, drainVars

LEMMA NextQueue ==
    ASSUME TypeOK, QueueInv, [Next]_vars
    PROVE  QueueInv'
<1>1. CASE UNCHANGED <<rows, drain, lock>>
  <2>1. \A d \in Drains : Held(d)' = Held(d)
    BY <1>1 DEF Held
  <2>2. \A d \in Drains : Shape(d)' /\ Claimed(d)'
    BY <1>1, <2>1 DEF QueueInv, DrainInv, Shape, Claimed
  <2> QED BY <1>1, <2>1, <2>2 DEF QueueInv, RowsInv, DrainInv, Disjoint, OneOutstanding
<1> QED BY <1>1, QuietSteps, EnqueueKeeps, AckKeeps, SweepKeeps, StartKeeps, CommitKeeps, SendKeeps,
           RequeueKeeps, EndKeeps DEF DrainStep

LEMMA InitQueue == Init => QueueInv
<1> SUFFICES ASSUME Init PROVE QueueInv
  OBVIOUS
<1>1. \A r \in Ids : rows[r].status = "none"
  BY Fields DEF Init
<1>2. \A d \in Drains : drain[d].pc = "idle" /\ drain[d].hand = {} /\ drain[d].unsent = {}
  BY Fields DEF Init
<1> QED BY <1>1, <1>2 DEF QueueInv, RowsInv, DrainInv, Shape, Claimed, Held, Disjoint, OneOutstanding

\* Type correctness of the table, the drains, the channels and the agent.
THEOREM TypeCorrect == Spec => []TypeOK
<1>1. Init => TypeOK /\ QueueInv
  BY InitTypes, InitQueue
<1>2. TypeOK /\ QueueInv /\ [Next]_vars => TypeOK' /\ QueueInv'
  BY NextTypes, NextQueue DEF QueueInv
<1> QED BY <1>1, <1>2, PTL DEF Spec

\* At most one command of a type is outstanding for the device, whatever
\* enqueue, claim's insert for a bare pending_command, and requeue of unwritten
\* (even legacy) deliveries do at once.
THEOREM OneCommandOutstanding == Spec => []OneOutstanding
<1>1. Init => TypeOK /\ QueueInv
  BY InitTypes, InitQueue
<1>2. TypeOK /\ QueueInv /\ [Next]_vars => TypeOK' /\ QueueInv'
  BY NextTypes, NextQueue DEF QueueInv
<1>3. QueueInv => OneOutstanding
  BY DEF QueueInv
<1> QED BY <1>1, <1>2, <1>3, PTL DEF Spec
-----------------------------------------------------------------------------
(* Results and frames. *)

LEMMA HeldAfter ==
    ASSUME TypeOK, QueueInv, NEW d \in Drains, SendFrame(d) \/ SendFails(d) \/ PayloadFails(d)
    PROVE  /\ Oldest(drain[d].hand) \in drain[d].hand /\ Oldest(drain[d].hand) \in Ids
           /\ \A e \in Drains : Held(e)' \subseteq Held(e)
           /\ SendFrame(d) => \A e \in Drains : Oldest(drain[d].hand) \notin Held(e)'
<1> DEFINE r == Oldest(drain[d].hand)
<1>1. /\ drain[d].pc = "send" /\ drain[d].hand \in SUBSET Ids /\ drain[d].unsent \in SUBSET Ids
      /\ drain[d].hand # {} /\ drain[d].hand \cap drain[d].unsent = {}
  BY DEF SendFrame, SendFails, PayloadFails, QueueInv, DrainInv, Shape, TypeOK, DrainRec
<1>2. r \in drain[d].hand /\ r \in Ids
  BY <1>1, OldestIn
<1>3. PICK u \in {drain[d].unsent, drain[d].unsent \union {r}} :
         /\ drain' = [drain EXCEPT ![d] = AfterRow(d, r, u)]
         /\ SendFrame(d) => u = drain[d].unsent
  BY DEF SendFrame, SendFails, PayloadFails
<1>4. /\ \A e \in Drains : e # d => drain'[e] = drain[e]
      /\ drain'[d] = AfterRow(d, r, u) /\ u \in SUBSET Ids
  BY <1>1, <1>2, <1>3 DEF TypeOK
<1>5. drain'[d].hand = drain[d].hand \ {r} /\ drain'[d].unsent = u
  <2> HIDE DEF r
  <2> QED BY <1>2, <1>4, AfterFields
<1>6. \A e \in Drains : e # d => Held(e)' = Held(e) /\ r \notin Held(e)
  BY <1>2, <1>4 DEF Held, QueueInv, Disjoint
<1>7. Held(d)' \subseteq Held(d) /\ (SendFrame(d) => r \notin Held(d)')
  BY <1>1, <1>2, <1>3, <1>5 DEF Held
<1> QED BY <1>2, <1>6, <1>7

\* No step touches a row that succeeded or failed, and no step gives a row
\* whose frame was written back to the queue or to a drain.
LEMMA RowsGoOn ==
    ASSUME TypeOK, QueueInv, [Next]_vars, NEW r \in Ids
    PROVE  /\ rows[r].status \in {"succeeded", "failed"} => rows'[r] = rows[r]
           /\ Unwritten(r)' => Unwritten(r)
<1> DEFINE Goal == /\ rows[r].status \in {"succeeded", "failed"} => rows'[r] = rows[r]
                   /\ Unwritten(r)' => Unwritten(r)
<1> SUFFICES Goal
  OBVIOUS
<1>1. ASSUME RowMove(r), \A d \in Drains : r \in Held(d)' => r \in Held(d)
      PROVE  Goal
  BY <1>1 DEF RowMove, Expires, Appears, Answers, Unwritten
<1>2. ASSUME UNCHANGED drain PROVE \A d \in Drains : r \in Held(d)' => r \in Held(d)
  BY <1>2 DEF Held
<1>3. CASE UNCHANGED <<rows, drain, lock>>
  BY <1>1, <1>2, <1>3 DEF RowMove
<1>4. CASE \/ \E t \in Types : Enqueue(t)
           \/ \E c \in Conns : ReceiveAck(c)
           \/ SweepExpired \/ \E q \in Ids : SweepTimedOut(q)
  <2>1. RowMove(r)
    BY <1>4, EnqueueKeeps, AckKeeps, SweepKeeps
  <2>2. UNCHANGED drain
    BY <1>4 DEF Enqueue, ReceiveAck, SweepExpired, SweepTimedOut, drainVars
  <2> QED BY <1>1, <1>2, <2>1, <2>2
<1>5. ASSUME NEW d \in Drains, NEW c \in Conns, NEW heartbeat \in BOOLEAN, StartDrain(d, c, heartbeat)
      PROVE  Goal
  <2>1. RowMove(r)
    BY <1>5, StartKeeps
  <2>2. /\ drain'[d].hand = Claimable(ClaimTable, ~stored') /\ drain'[d].unsent = {}
        /\ rows' = ClaimTable /\ \A e \in Drains : e # d => drain'[e] = drain[e]
    BY <1>5 DEF StartDrain, TypeOK
  <2>3. r \in Held(d)' => rows'[r].status = "queued"
    BY <2>2 DEF Held, Claimable
  <2>4. \A e \in Drains : e # d => Held(e)' = Held(e)
    BY <2>2 DEF Held
  <2>5. rows'[r].status \in {"none", "queued"} => rows[r].status \in {"none", "queued"}
    BY <2>1 DEF RowMove, Expires, Appears, Answers
  <2>6. Unwritten(r)' => Unwritten(r)
    BY <2>3, <2>4, <2>5 DEF Unwritten
  <2> QED BY <2>1, <2>6 DEF RowMove, Expires, Appears, Answers
<1>6. ASSUME NEW d \in Drains, ClaimCommit(d)
      PROVE  Goal
  <2>1. /\ r \in drain[d].hand => rows[r].status \in {"queued", "expired"}
        /\ rows'[r] = IF r \in drain[d].hand THEN Marked(rows[r], drain[d].legacy) ELSE rows[r]
    BY <1>6 DEF ClaimCommit, QueueInv, DrainInv, Claimed, Held
  <2>2. \A e \in Drains : Held(e)' = Held(e)
    BY <1>6 DEF ClaimCommit, TypeOK, DrainRec, Held
  <2>3. r \in drain[d].hand => Unwritten(r)
    BY DEF Unwritten, Held
  <2>4. r \notin drain[d].hand => rows'[r] = rows[r]
    BY <2>1
  <2> QED BY <2>1, <2>2, <2>3, <2>4 DEF Unwritten
<1>7. ASSUME NEW d \in Drains, SendFrame(d) \/ SendFails(d) \/ PayloadFails(d)
      PROVE  Goal
  <2>1. RowMove(r)
    BY <1>7, SendKeeps
  <2>2. \A e \in Drains : Held(e)' \subseteq Held(e)
    BY <1>7, HeldAfter
  <2> QED BY <1>1, <2>1, <2>2
<1>8. ASSUME NEW d \in Drains, Requeue(d)
      PROVE  Goal
  <2>1. \A e \in Drains : Held(e)' \subseteq Held(e)
    <3>1. [drain[d] EXCEPT !.pc = "flag", !.unsent = {}].hand = drain[d].hand
          /\ [drain[d] EXCEPT !.pc = "flag", !.unsent = {}].unsent = {}
      BY DEF TypeOK, DrainRec
    <3>2. drain'[d] \in {[drain[d] EXCEPT !.pc = "flag", !.unsent = {}], IdleDrain}
          /\ \A e \in Drains : e # d => drain'[e] = drain[e]
      BY <1>8 DEF Requeue, TypeOK
    <3> QED BY <3>1, <3>2, Fields DEF Held
  <2>2. CASE r \in Returning(d)
    <3>1. rows[r].status = "sent" /\ r \in Held(d)
      BY <2>2 DEF Returning, Held
    <3> QED BY <3>1 DEF Unwritten
  <2>3. CASE r \notin Returning(d)
    <3>1. rows'[r] = rows[r]
      BY <1>8, <2>3 DEF Requeue
    <3> QED BY <1>1, <2>1, <3>1 DEF RowMove
  <2> QED BY <2>2, <2>3
<1>9. ASSUME ServerRestart \/ \E d \in Drains : RequeueFlags(d)
      PROVE  Goal
  <2>1. \A e \in Drains : drain'[e] \in {drain[e], IdleDrain}
    BY <1>9 DEF ServerRestart, RequeueFlags, TypeOK
  <2>2. \A e \in Drains : Held(e)' \subseteq Held(e)
    BY <2>1, Fields DEF Held
  <2>3. rows' = rows
    BY <1>9 DEF ServerRestart, RequeueFlags
  <2> QED BY <1>1, <2>2, <2>3 DEF RowMove
<1> HIDE DEF Goal
<1> QED BY <1>3, <1>4, <1>5, <1>6, <1>7, <1>8, <1>9, QuietSteps DEF DrainStep

\* A final result is final: neither a late acknowledgement after the sweep, nor
\* a claim that commits late, nor a requeue changes a row that succeeded or failed.
THEOREM ResultsStay == Spec => ResultStays
<1>1. Init => TypeOK /\ QueueInv
  BY InitTypes, InitQueue
<1>2. TypeOK /\ QueueInv /\ [Next]_vars => TypeOK' /\ QueueInv'
  BY NextTypes, NextQueue DEF QueueInv
<1>3. TypeOK /\ QueueInv /\ [Next]_vars
        => [\A r \in Ids : rows[r].status \in {"succeeded", "failed"} => rows'[r] = rows[r]]_vars
  BY RowsGoOn
<1> QED BY <1>1, <1>2, <1>3, PTL DEF Spec, ResultStays
-----------------------------------------------------------------------------
(* Where frames are. *)

LEMMA QuietFrames ==
    ASSUME OnceInv, \A r \in Ids : Unwritten(r)' => Unwritten(r),
           UNCHANGED <<written, executed, waiting, turn, agent, down>>
    PROVE  OnceInv'
<1> SUFFICES ASSUME NEW r \in Ids PROVE FrameInv(r)'
  BY DEF OnceInv
<1>1. FrameInv(r)
  BY DEF OnceInv
<1>2. Counted(r)'
  BY <1>1 DEF FrameInv, Counted
<1>3. InAgent(r)' /\ OnItsWay(r)' /\ OneFrame(r)'
  BY <1>1 DEF FrameInv, InAgent, OnItsWay, OneFrame
<1> QED BY <1>2, <1>3 DEF FrameInv

\* Frames lost or read: what is left were frames before, at distinct places.
LEMMA FewerFrames ==
    ASSUME TypeOK, NEW r \in Ids, OneFrame(r), NEW c \in Conns,
           down' = [down EXCEPT ![c] = Tail(down[c])], down[c] # <<>>
    PROVE  /\ OneFrame(r)'
           /\ Head(down[c]) = down[c][1] /\ 1 \in 1 .. Len(down[c])
           /\ \A e \in Conns : \A i \in 1 .. Len(down'[e]) :
                down'[e][i].id = r => /\ Head(down[c]).id # r
                                      /\ \E j \in 1 .. Len(down[e]) : down[e][j].id = r
<1>1. /\ \A e \in Conns : e # c => down'[e] = down[e]
      /\ down'[c] = Tail(down[c]) /\ down[c] \in Seq(Frame)
  BY DEF TypeOK
<1>2. /\ Len(down[c]) \in Nat /\ Len(down[c]) > 0 /\ Len(Tail(down[c])) = Len(down[c]) - 1
      /\ Head(down[c]) = down[c][1]
      /\ \A i \in 1 .. Len(Tail(down[c])) : Tail(down[c])[i] = down[c][i + 1]
  BY <1>1
<1>3. \A i \in 1 .. Len(down'[c]) : i + 1 \in 2 .. Len(down[c]) /\ down'[c][i] = down[c][i + 1]
  <2>1. Len(down'[c]) = Len(down[c]) - 1 /\ \A i \in 1 .. Len(down'[c]) : down'[c][i] = down[c][i + 1]
    BY <1>1, <1>2
  <2>2. \A n \in Nat : \A i \in 1 .. n - 1 : i + 1 \in 2 .. n
    OBVIOUS
  <2> QED BY <1>2, <2>1, <2>2
<1>4. 1 \in 1 .. Len(down[c]) /\ \A i \in 2 .. Len(down[c]) : i \in 1 .. Len(down[c]) /\ i # 1
  BY <1>2
<1>5. ASSUME NEW e \in Conns, NEW i \in 1 .. Len(down'[e]), down'[e][i].id = r
      PROVE  /\ Head(down[c]).id # r
             /\ \E j \in 1 .. Len(down[e]) : down[e][j].id = r
  <2>1. PICK j \in 1 .. Len(down[e]) : down[e][j].id = r /\ (e = c => j # 1)
    <3>1. CASE e = c
      BY <1>3, <1>4, <1>5, <3>1
    <3>2. CASE e # c
      BY <1>1, <1>5, <3>2
    <3> QED BY <3>1, <3>2
  <2> QED BY <1>2, <1>4, <2>1 DEF OneFrame
<1>6. OneFrame(r)'
  <2>1. SUFFICES ASSUME NEW a \in Conns, NEW e \in Conns, NEW i \in 1 .. Len(down'[a]),
                        NEW j \in 1 .. Len(down'[e]), down'[a][i].id = r, down'[e][j].id = r
                 PROVE  a = e /\ i = j
    BY DEF OneFrame
  <2>2. CASE a = c /\ e = c
    <3>1. /\ down[c][i + 1].id = r /\ down[c][j + 1].id = r
          /\ i + 1 \in 1 .. Len(down[c]) /\ j + 1 \in 1 .. Len(down[c])
      BY <1>3, <1>4, <2>1, <2>2
    <3>2. i + 1 = j + 1
      BY <3>1 DEF OneFrame
    <3>3. i \in Int /\ j \in Int
      BY <2>1
    <3> QED BY <2>2, <3>2, <3>3
  <2>3. CASE a # c /\ e # c
    BY <1>1, <2>1, <2>3 DEF OneFrame
  <2>4. CASE a # c /\ e = c
    <3>1. j + 1 \in 1 .. Len(down[c]) /\ down[c][j + 1].id = r
      BY <1>3, <1>4, <2>1, <2>4
    <3> QED BY <1>1, <2>1, <2>4, <3>1 DEF OneFrame
  <2>5. CASE a = c /\ e # c
    <3>1. i + 1 \in 1 .. Len(down[c]) /\ down[c][i + 1].id = r
      BY <1>3, <1>4, <2>1, <2>5
    <3> QED BY <1>1, <2>1, <2>5, <3>1 DEF OneFrame
  <2> QED BY <2>2, <2>3, <2>4, <2>5
<1> QED BY <1>2, <1>4, <1>5, <1>6

\* No frame of the row is on its way; the frames of the row after a step are
\* those before it and f.
NoFrame(r) == \A e \in Conns : \A i \in 1 .. Len(down[e]) : down[e][i].id # r
AtMostNew(r, f) ==
    \A e \in Conns : \A i \in 1 .. Len(down'[e]) :
        down'[e][i].id = r => f.id = r \/ \E j \in 1 .. Len(down[e]) : down[e][j].id = r

\* A frame added for a row that had none.
LEMMA MoreFrames ==
    ASSUME TypeOK, NEW r \in Ids, OneFrame(r), NEW c \in Conns, NEW f \in Frame,
           down' = [down EXCEPT ![c] = Append(down[c], f)],
           f.id = r => NoFrame(r)
    PROVE  OneFrame(r)' /\ AtMostNew(r, f)
<1>1. /\ \A e \in Conns : e # c => down'[e] = down[e]
      /\ down'[c] = Append(down[c], f) /\ down[c] \in Seq(Frame)
  BY DEF TypeOK
<1>2. /\ Len(down[c]) \in Nat /\ Len(down'[c]) = Len(down[c]) + 1
      /\ down'[c][Len(down[c]) + 1] = f
      /\ \A i \in 1 .. Len(down[c]) : down'[c][i] = down[c][i]
  BY <1>1
<1>3. ASSUME NEW e \in Conns, NEW i \in 1 .. Len(down'[e])
      PROVE  \/ i \in 1 .. Len(down[e]) /\ down'[e][i] = down[e][i]
             \/ e = c /\ i = Len(down[c]) + 1 /\ down'[e][i] = f
  <2>1. CASE e # c
    BY <1>1, <1>3, <2>1
  <2>2. CASE e = c
    <3>1. i \in 1 .. Len(down[c]) \/ i = Len(down[c]) + 1
      BY <1>2, <1>3, <2>2
    <3> QED BY <1>2, <2>2, <3>1
  <2> QED BY <2>1, <2>2
<1>4. OneFrame(r)'
  <2>1. SUFFICES ASSUME NEW a \in Conns, NEW e \in Conns, NEW i \in 1 .. Len(down'[a]),
                        NEW j \in 1 .. Len(down'[e]), down'[a][i].id = r, down'[e][j].id = r
                 PROVE  a = e /\ i = j
    BY DEF OneFrame
  <2>2. /\ \/ i \in 1 .. Len(down[a]) /\ down[a][i].id = r
           \/ a = c /\ i = Len(down[c]) + 1 /\ f.id = r
        /\ \/ j \in 1 .. Len(down[e]) /\ down[e][j].id = r
           \/ e = c /\ j = Len(down[c]) + 1 /\ f.id = r
    BY <1>3, <2>1
  <2>3. CASE f.id = r
    BY <2>2, <2>3 DEF NoFrame
  <2>4. CASE f.id # r
    BY <2>2, <2>4 DEF OneFrame
  <2> QED BY <2>3, <2>4
<1> QED BY <1>3, <1>4 DEF AtMostNew

\* The drain writes a frame.
LEMMA SendOnce ==
    ASSUME TypeOK, QueueInv, OnceInv, NEW d \in Drains, SendFrame(d)
    PROVE  OnceInv'
<1>0. PICK n, c, f : /\ n = Oldest(drain[d].hand) /\ c = drain[d].conn
                     /\ f = [id |-> n, legacy |-> drain[d].legacy]
  OBVIOUS
<1>1. /\ n \in drain[d].hand /\ n \in Ids
      /\ \A e \in Drains : Held(e)' \subseteq Held(e) /\ n \notin Held(e)'
  BY <1>0, HeldAfter
<1>2. c \in Conns /\ drain[d].legacy \in BOOLEAN /\ drain[d].pc = "send"
  BY <1>0 DEF SendFrame, QueueInv, DrainInv, Shape, TypeOK, DrainRec
<1>3. f \in Frame /\ f.id = n
  BY <1>0, <1>1, <1>2 DEF Frame
<1>4. /\ down' = [down EXCEPT ![c] = Append(down[c], f)]
      /\ written' = [written EXCEPT ![n] = @ + 1]
      /\ UNCHANGED <<rows, executed, waiting, turn, agent>>
  BY <1>0 DEF SendFrame, serverVars, agentVars
<1>5. rows[n].status \notin {"none", "queued"} /\ Unwritten(n)
  BY <1>1, <1>2 DEF QueueInv, DrainInv, Claimed, Held, Unwritten
<1>6. ~Unwritten(n)'
  BY <1>1, <1>4, <1>5 DEF Unwritten
<1>7. \A r \in Ids : Unwritten(r)' => Unwritten(r)
  BY <1>1, <1>4 DEF Unwritten
<1>8. /\ written[n] = 0 /\ executed[n] = 0 /\ n \notin waiting /\ turn # n
      /\ \A e \in Conns : \A i \in 1 .. Len(down[e]) : down[e][i].id # n
  <2>1. FrameInv(n)
    BY <1>1 DEF OnceInv
  <2>2. written[n] = 0 /\ executed[n] <= 0 /\ executed[n] \in Nat
    BY <1>1, <1>5, <2>1 DEF FrameInv, Counted, TypeOK
  <2>3. executed[n] = 0
    BY <2>2
  <2> QED BY <2>1, <2>2, <2>3 DEF FrameInv, InAgent, OnItsWay
<1>9. ASSUME NEW r \in Ids
      PROVE  FrameInv(r)'
  <2>1. FrameInv(r)
    BY DEF OnceInv
  <2>2. OneFrame(r)' /\ AtMostNew(r, f)
    <3>1. OneFrame(r)
      BY <2>1 DEF FrameInv
    <3>2. f.id = r => NoFrame(r)
      BY <1>3, <1>8 DEF NoFrame
    <3>3. c \in Conns /\ f \in Frame /\ down' = [down EXCEPT ![c] = Append(down[c], f)]
      BY <1>2, <1>3, <1>4
    <3> QED BY <3>1, <3>2, <3>3, MoreFrames, Zenon
  <2>3. CASE r = n
    <3>1. written'[n] = 1
      BY <1>1, <1>4, <1>8 DEF TypeOK
    <3>2. Counted(r)'
      BY <1>4, <1>6, <1>8, <2>3, <3>1 DEF Counted
    <3>3. InAgent(r)' /\ OnItsWay(r)'
      BY <1>4, <1>8, <2>3, <3>1 DEF InAgent, OnItsWay
    <3> QED BY <2>2, <3>2, <3>3 DEF FrameInv
  <2>4. CASE r # n
    <3>1. written'[r] = written[r]
      BY <1>1, <1>4, <2>4 DEF TypeOK
    <3>2. Counted(r)' /\ InAgent(r)'
      BY <1>4, <1>7, <2>1, <3>1 DEF FrameInv, Counted, InAgent
    <3>3. OnItsWay(r)'
      BY <1>3, <1>4, <2>1, <2>2, <2>4, <3>1 DEF FrameInv, OnItsWay, AtMostNew
    <3> QED BY <2>2, <3>2, <3>3 DEF FrameInv
  <2> QED BY <2>3, <2>4
<1> QED BY <1>9 DEF OnceInv

\* The agent reads a frame.
LEMMA ReceiveOnce ==
    ASSUME TypeOK, OnceInv, NEW c \in Conns, ReceiveCommand(c) \/ ReceiveLegacy(c)
    PROVE  OnceInv'
<1> DEFINE n == Head(down[c]).id
<1>1. n \in Ids
  <2>1. down[c] \in Seq(Frame) /\ down[c] # <<>>
    BY DEF ReceiveCommand, ReceiveLegacy, TypeOK
  <2>2. Head(down[c]) \in Frame
    BY <2>1
  <2> QED BY <2>2 DEF Frame
<1>2. /\ down' = [down EXCEPT ![c] = Tail(down[c])] /\ down[c] # <<>>
      /\ UNCHANGED <<rows, drain, written, turn>>
      /\ \/ waiting' = waiting \union {n} /\ executed' = executed /\ agent' = agent
         \/ /\ waiting' = waiting /\ executed' = [executed EXCEPT ![n] = @ + 1]
            /\ agent' \in {agent, "exiting"}
  BY DEF ReceiveCommand, ReceiveLegacy, serverVars, drainVars
<1>3. ASSUME NEW r \in Ids
      PROVE  FrameInv(r)'
  <2>1. FrameInv(r)
    BY DEF OnceInv
  <2>2. /\ OneFrame(r)'
        /\ Head(down[c]) = down[c][1] /\ 1 \in 1 .. Len(down[c])
        /\ \A e \in Conns : \A i \in 1 .. Len(down'[e]) :
             down'[e][i].id = r => /\ n # r
                                   /\ \E j \in 1 .. Len(down[e]) : down[e][j].id = r
    BY <1>2, <2>1, FewerFrames DEF FrameInv
  <2>3. n = r => written[r] = 1 /\ executed[r] = 0 /\ r \notin waiting /\ turn # r
    BY <2>1, <2>2 DEF FrameInv, OnItsWay
  <2> HIDE DEF n
  <2>4. Unwritten(r)' = Unwritten(r)
    BY <1>2 DEF Unwritten, Held
  <2>5. executed'[r] = executed[r] \/ (n = r /\ executed'[r] = 1 /\ waiting' = waiting)
    BY <1>1, <1>2, <2>3 DEF TypeOK
  <2>6. Counted(r)'
    BY <1>2, <2>1, <2>3, <2>4, <2>5 DEF FrameInv, Counted
  <2>7. InAgent(r)'
    BY <1>2, <2>1, <2>3, <2>5 DEF FrameInv, InAgent
  <2>8. OnItsWay(r)'
    BY <1>2, <2>1, <2>2, <2>5 DEF FrameInv, OnItsWay
  <2> QED BY <2>2, <2>6, <2>7, <2>8 DEF FrameInv
<1> QED BY <1>3 DEF OnceInv

\* The agent starts or ends a command.
LEMMA RunOnce ==
    ASSUME TypeOK, OnceInv, NEW n \in Ids,
           TakeTurn(n) \/ \E result \in {"succeeded", "failed"} : Finish(n, result)
    PROVE  OnceInv'
<1>1. UNCHANGED <<rows, drain, written, down>>
  BY DEF TakeTurn, Finish, serverVars, drainVars
<1>2. ASSUME NEW r \in Ids
      PROVE  FrameInv(r)'
  <2>1. FrameInv(r) /\ FrameInv(n) /\ n # 0 /\ r # 0
    BY CommandAssumption DEF OnceInv, Ids
  <2>2. Unwritten(r)' = Unwritten(r) /\ (OneFrame(r)' = OneFrame(r))
    BY <1>1 DEF Unwritten, Held, OneFrame
  <2>3. CASE TakeTurn(n)
    <3>1. turn = 0 /\ turn' = n /\ n \in waiting /\ waiting' = waiting \ {n} /\ UNCHANGED <<executed, agent>>
      BY <2>3 DEF TakeTurn
    <3>2. Counted(r)' /\ InAgent(r)'
      BY <1>1, <2>1, <2>2, <3>1 DEF FrameInv, Counted, InAgent
    <3>3. OnItsWay(r)'
      BY <1>1, <2>1, <3>1 DEF FrameInv, OnItsWay
    <3> QED BY <2>1, <2>2, <3>2, <3>3 DEF FrameInv
  <2>4. ASSUME NEW result \in {"succeeded", "failed"}, Finish(n, result)
        PROVE  FrameInv(r)'
    <3>1. /\ agent = "running" /\ turn = n /\ executed' = [executed EXCEPT ![n] = @ + 1]
          /\ UNCHANGED waiting
          /\ turn' \in {n, 0} /\ (turn' = n => agent' # "running")
      BY <2>1, <2>4 DEF Finish
    <3>2. executed[n] = 0 /\ written[n] = 1
      BY <2>1, <3>1 DEF FrameInv, InAgent
    <3>3. executed'[n] = 1 /\ (r # n => executed'[r] = executed[r])
      BY <3>1, <3>2 DEF TypeOK
    <3>4. Counted(r)'
      BY <1>1, <2>1, <2>2, <3>2, <3>3 DEF FrameInv, Counted
    <3>5. InAgent(r)'
      BY <1>1, <2>1, <3>1, <3>2, <3>3 DEF FrameInv, InAgent
    <3>6. OnItsWay(r)'
      BY <1>1, <2>1, <3>1, <3>3 DEF FrameInv, OnItsWay
    <3> QED BY <2>1, <2>2, <3>4, <3>5, <3>6 DEF FrameInv
  <2> QED BY <2>3, <2>4
<1> QED BY <1>2 DEF OnceInv

\* The channel or the process ends: frames are lost.
LEMMA LossOnce ==
    ASSUME TypeOK, OnceInv, AgentDisconnect \/ AgentRestart \/ AgentExit
    PROVE  OnceInv'
<1>1. /\ UNCHANGED <<rows, drain, written, executed>>
      /\ \/ UNCHANGED <<waiting, turn, agent>>
         \/ waiting' = {} /\ turn' = 0
         \/ UNCHANGED <<waiting, turn>> /\ agent' = "gone"
  BY DEF AgentDisconnect, AgentRestart, AgentExit, serverVars, drainVars, agentVars
<1>2. \A c \in Conns : \A i \in 1 .. Len(down'[c]) : down'[c] = down[c]
  <2>1. Len(<<>>) = 0
    OBVIOUS
  <2>2. \A c \in Conns : down'[c] \in {down[c], <<>>}
    BY DEF AgentDisconnect, AgentRestart, AgentExit, TypeOK
  <2>3. 1 .. 0 = {}
    OBVIOUS
  <2> QED BY <2>1, <2>2, <2>3
<1>3. ASSUME NEW r \in Ids
      PROVE  FrameInv(r)'
  <2>1. FrameInv(r) /\ r # 0
    BY CommandAssumption DEF OnceInv, Ids
  <2>2. Unwritten(r)' = Unwritten(r)
    BY <1>1 DEF Unwritten, Held
  <2>3. Counted(r)' /\ InAgent(r)'
    BY <1>1, <2>1, <2>2 DEF FrameInv, Counted, InAgent
  <2>4. OnItsWay(r)'
    BY <1>1, <1>2, <2>1 DEF FrameInv, OnItsWay
  <2>5. OneFrame(r)'
    BY <1>2, <2>1 DEF FrameInv, OneFrame
  <2> QED BY <2>3, <2>4, <2>5 DEF FrameInv
<1> QED BY <1>3 DEF OnceInv

LEMMA FrameSteps ==
    ASSUME [Next]_vars
    PROVE  \/ UNCHANGED <<written, executed, waiting, turn, agent, down>>
           \/ \E d \in Drains : SendFrame(d)
           \/ \E c \in Conns : ReceiveCommand(c) \/ ReceiveLegacy(c)
           \/ \E r \in Ids : TakeTurn(r) \/ \E result \in {"succeeded", "failed"} : Finish(r, result)
           \/ AgentDisconnect \/ AgentRestart \/ AgentExit
BY DEF Next, DrainStep, Enqueue, UninstallTenant, Suspend, Reinstate, StartDrain, Heartbeat, ClaimCommit,
       SendFails, PayloadFails, Requeue, RequeueFlags, ReceiveAck, AckClearsFlag, TtlPasses,
       SweepTimedOut, SweepExpired, CleanupDevice, ServerRestart, AgentConnect,
       OtherRegisters, ServerDisconnect,
       vars, serverVars, drainVars, netVars, agentVars

LEMMA InitOnce == Init => OnceInv
<1> SUFFICES ASSUME Init, NEW r \in Ids PROVE FrameInv(r)
  BY DEF OnceInv
<1>1. \A c \in Conns : Len(down[c]) = 0
  BY DEF Init
<1>2. \A c \in Conns : 1 .. Len(down[c]) = {}
  BY <1>1
<1>3. written[r] = 0 /\ executed[r] = 0 /\ waiting = {} /\ turn = 0 /\ r # 0
  BY CommandAssumption DEF Init, Ids
<1> QED BY <1>2, <1>3 DEF FrameInv, Counted, InAgent, OnItsWay, OneFrame

\* The frame of a row is written at most once and run at most once, whatever
\* drains, channels, restarts and requeues race: a row goes back to the queue
\* only before its frame is written, and a written frame is in one place.
THEOREM CommandsRunOnce == Spec => []WrittenOnce
<1>1. Init => TypeOK /\ QueueInv /\ OnceInv
  BY InitTypes, InitQueue, InitOnce
<1>2. TypeOK /\ QueueInv /\ OnceInv /\ [Next]_vars => TypeOK' /\ QueueInv' /\ OnceInv'
  <2> SUFFICES ASSUME TypeOK, QueueInv, OnceInv, [Next]_vars PROVE TypeOK' /\ QueueInv' /\ OnceInv'
    OBVIOUS
  <2>1. TypeOK' /\ QueueInv'
    BY NextTypes, NextQueue DEF QueueInv
  <2>2. OnceInv'
    BY RowsGoOn, FrameSteps, QuietFrames, SendOnce, ReceiveOnce, RunOnce, LossOnce
  <2> QED BY <2>1, <2>2
<1>3. OnceInv /\ TypeOK => WrittenOnce
  <2> SUFFICES ASSUME OnceInv, NEW r \in Ids PROVE written[r] <= 1 /\ executed[r] <= written[r]
    BY DEF WrittenOnce
  <2> QED BY DEF OnceInv, FrameInv, Counted
<1> QED BY <1>1, <1>2, <1>3, PTL DEF Spec
=============================================================================
