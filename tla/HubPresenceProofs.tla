------------------------- MODULE HubPresenceProofs -------------------------
(***************************************************************************)
(* Theorems about HubPresence, for every number of sockets and any number  *)
(* of connections, faults, suspensions and pushes: type correctness, one   *)
(* live channel per device, no grace timer while it is open, no channel    *)
(* left for a deleted tenant, and no outage that stays declared while the  *)
(* agent is connected.                                                     *)
(***************************************************************************)
EXTENDS HubPresence, TLAPS

Places == {"idle", "drain", "recover", "announce", "presence", "reply", "picked", "raise",
           "opened", "bumped", "close", "emit", "resolve", "disconnect", "resolve again"}

Counts == [connect : 0 .. MaxConnects, fail : 0 .. MaxFaults, restart : 0 .. MaxFaults,
           admin : 0 .. MaxAdmin, suspend : 0 .. MaxSuspends, http : 0 .. MaxHttp]

(***************************************************************************)
(* Type correctness.                                                       *)
(***************************************************************************)

\* A bounded event is counted only below its bound.
LEMMA BumpType ==
    ASSUME count \in Counts,
           \/ Bump("connect", MaxConnects) \/ Bump("admin", MaxAdmin)
           \/ Bump("suspend", MaxSuspends) \/ Bump("http", MaxHttp)
           \/ Fault("fail") \/ Fault("restart")
    PROVE  count' \in Counts
<1> USE BoundsAreNaturals DEF Counts
<1>1. CASE Bump("connect", MaxConnects) BY <1>1 DEF Bump
<1>2. CASE Bump("admin", MaxAdmin) BY <1>2 DEF Bump
<1>3. CASE Bump("suspend", MaxSuspends) BY <1>3 DEF Bump
<1>4. CASE Bump("http", MaxHttp) BY <1>4 DEF Bump
<1>5. CASE Fault("fail") BY <1>5 DEF Fault
<1>6. CASE Fault("restart") BY <1>6 DEF Fault
<1> QED BY <1>1, <1>2, <1>3, <1>4, <1>5, <1>6

\* A process moves to a place of the code.
LEMMA MoveType ==
    ASSUME pc \in [Procs -> Places], NEW p, NEW from, NEW to \in Places, Move(p, from, to)
    PROVE  pc' \in [Procs -> Places]
BY DEF Move

LEMMA InitType == Init => TypeOK
<1> SUFFICES ASSUME Init PROVE TypeOK
  OBVIOUS
<1>1. count \in Counts
  BY BoundsAreNaturals DEF Init, Counts
<1>2. pc \in [Procs -> Places]
  BY DEF Init, Places
<1> QED BY <1>1, <1>2 DEF Init, TypeOK, Counts, Places

LEMMA NextType == TypeOK /\ [Next]_vars => TypeOK'
<1> SUFFICES ASSUME TypeOK, [Next]_vars PROVE TypeOK'
  OBVIOUS
<1> USE DEF TypeOK
<1>0. count \in Counts /\ pc \in [Procs -> Places]
  BY DEF Counts, Places
<1>1. ASSUME NEW s \in Sockets, Gate(s) PROVE TypeOK'
  <2>1. count' \in Counts
    BY <1>0, <1>1, BumpType DEF Gate
  <2> QED BY <1>1, <2>1 DEF Gate, Counts
<1>2. ASSUME NEW s \in Sockets, Register(s) PROVE TypeOK'
  <2>1. pc' \in [Procs -> Places]
    <3>1. Move(<<"register", s>>, "idle", "drain") /\ "drain" \in Places
      BY <1>2 DEF Register, Places
    <3> QED BY ONLY <1>0, <3>1, MoveType
  <2>2. sock' \in [Sockets -> {"gated", "open", "closing", "closed"}]
    BY <1>2 DEF Register, Displaced
  <2> QED BY <1>2, <2>1, <2>2 DEF Register, Places
<1>3. ASSUME NEW s \in Sockets, RegisterRefused(s) \/ Close(s) \/ Unregister(s) PROVE TypeOK'
  BY <1>3 DEF RegisterRefused, Close, Unregister
<1>4. ASSUME NEW s \in Sockets, Drain(s) PROVE TypeOK'
  <2>1. pc' \in [Procs -> Places]
    BY <1>0, <1>4 DEF Drain, Move, Places
  <2> QED BY <1>4, <2>1 DEF Drain, Places
<1>5. ASSUME NEW s \in Sockets, DrainFails(s) PROVE TypeOK'
  <2>1. pc' \in [Procs -> Places]
    BY <1>0, <1>5 DEF DrainFails, Move, Places
  <2>2. count' \in Counts
    BY <1>0, <1>5, BumpType DEF DrainFails
  <2> QED BY <1>5, <2>1, <2>2 DEF DrainFails, Places, Counts
<1>6. CASE StartTimer
  BY <1>6 DEF StartTimer, GraceStarts
<1>7. CASE TimerFires
  BY <1>7 DEF TimerFires
<1>8. CASE SilenceGrows
  BY <1>8 DEF SilenceGrows
<1>9. CASE SweepSelect
  BY <1>9 DEF SweepSelect, Move
<1>10. ASSUME NEW d \in Declarers, DeclareRead(d) \/ DeclareClose(d) PROVE TypeOK'
  BY <1>10 DEF DeclareRead, DeclareClose, Move
<1>11. ASSUME NEW d \in Declarers, Raise(d) PROVE TypeOK'
  <2> DEFINE to == CASE Gone -> "idle" [] ~Gone /\ incident -> "bumped" [] OTHER -> "opened"
  <2>1. to \in Places
    BY DEF Places
  <2>2. Move(<<"declare", d>>, "raise", to)
    BY <1>11 DEF Raise
  <2> HIDE DEF to
  <2>3. pc' \in [Procs -> Places]
    BY ONLY <1>0, <2>1, <2>2, MoveType
  <2>4. incident' \in BOOLEAN
    BY <1>11 DEF Raise
  <2> QED BY <1>11, <2>3, <2>4 DEF Raise, Places
<1>12. ASSUME NEW d \in Declarers, RaiseFails(d) PROVE TypeOK'
  <2>1. count' \in Counts
    BY <1>0, <1>12, BumpType DEF RaiseFails
  <2>2. pc' \in [Procs -> Places]
    BY <1>0, <1>12 DEF RaiseFails, Move, Places
  <2> QED BY <1>12, <2>1, <2>2 DEF RaiseFails, Places, Counts
<1>13. ASSUME NEW d \in Declarers, DeclareCheck(d) PROVE TypeOK'
  <2>1. AfterRaise(d) \in Places
    BY DEF AfterRaise, Places
  <2>2. pc' \in [Procs -> Places]
    BY <1>0, <1>13, <2>1 DEF DeclareCheck
  <2>3. presence' \in BOOLEAN
    BY <1>13 DEF DeclareCheck
  <2> QED BY <1>13, <2>2, <2>3 DEF DeclareCheck, Places
<1>14. CASE SweepEmit
  BY <1>14 DEF SweepEmit, Move
<1>15. ASSUME NEW p, RecoverStep(p) PROVE TypeOK'
  <2>1. AfterRecover(p) \in Places /\ "announce" \in Places
    BY DEF AfterRecover, Places
  <2>2. pc' \in [Procs -> Places]
    BY <1>0, <1>15, <2>1 DEF RecoverStep, Recover, RecoverFails, Announce, Move
  <2>3. count' \in Counts
    BY <1>0, <1>15, BumpType DEF RecoverStep, Recover, RecoverFails, Announce
  <2> QED BY <1>15, <2>2, <2>3 DEF RecoverStep, Recover, RecoverFails, Announce, Places, Counts
<1>16. ASSUME NEW c \in Carriers, PushStart(c) PROVE TypeOK'
  <2>1. count' \in Counts
    BY <1>0, <1>16, BumpType DEF PushStart
  <2>2. pc' \in [Procs -> Places]
    BY <1>0, <1>16 DEF PushStart, Move, Places
  <2>3. sock' \in [Sockets -> {"gated", "open", "closing", "closed"}]
    BY <1>16 DEF PushStart
  <2> QED BY <1>16, <2>1, <2>2, <2>3 DEF PushStart, Places, Counts
<1>17. ASSUME NEW c \in Carriers, PushPresence(c) PROVE TypeOK'
  <2>1. pc' \in [Procs -> Places]
    BY <1>0, <1>17 DEF PushPresence, Move, Places
  <2>2. presence' \in BOOLEAN /\ ui' \in {"up", "down"}
    BY <1>17 DEF PushPresence
  <2> QED BY <1>17, <2>1, <2>2 DEF PushPresence, Places
<1>18. ASSUME NEW c \in Carriers, PushReply(c) PROVE TypeOK'
  BY <1>18 DEF PushReply, Move, Carriers
<1>19. CASE Approve
  <2>1. count' \in Counts
    BY <1>0, <1>19, BumpType DEF Approve
  <2> QED BY <1>19, <2>1 DEF Approve, Counts
<1>20. CASE Suspend
  <2>1. count' \in Counts
    BY <1>0, <1>20, BumpType DEF Suspend
  <2> QED BY <1>20, <2>1 DEF Suspend, Move, Counts
<1>21. CASE SuspendResolve \/ SuspendDisconnect \/ CloseByTenant
  BY <1>21 DEF SuspendResolve, SuspendDisconnect, CloseByTenant, CloseChannel, Move
<1>22. CASE DeleteTenant
  <2>1. count' \in Counts
    BY <1>0, <1>22, BumpType DEF DeleteTenant
  <2> QED BY <1>22, <2>1 DEF DeleteTenant, Counts
<1>23. CASE ServerRestart
  <2>1. count' \in Counts
    BY <1>0, <1>23, BumpType DEF ServerRestart
  <2> QED BY <1>23, <2>1 DEF ServerRestart, Counts
<1>24. CASE UNCHANGED vars
  BY <1>24 DEF vars
<1> QED BY <1>1, <1>2, <1>3, <1>4, <1>5, <1>6, <1>7, <1>8, <1>9, <1>10, <1>11, <1>12, <1>13,
           <1>14, <1>15, <1>16, <1>17, <1>18, <1>19, <1>20, <1>21, <1>22, <1>23, <1>24
        DEF Next, RegisterStep, DeclareStep, PushStep

\* Every variable of HubPresence keeps its type, whatever the number of
\* sockets and of events.
THEOREM TypeCorrect == Spec => []TypeOK
BY InitType, NextType, PTL DEF Spec

(***************************************************************************)
(* The channel.                                                            *)
(***************************************************************************)

ChannelInv == OneChannel /\ TimerMeansAway /\ DeletedHasNoChannel

\* Closing the channel, or leaving it alone, opens none.
LEMMA NoOpening ==
    ASSUME TypeOK, ChannelInv, byDevice' = byDevice, timer' = timer,
           status' = "revoked" => status = "revoked",
           \A s \in Sockets : sock'[s] = "open" => sock[s] = "open"
    PROVE  ChannelInv'
<1>1. HubOpen' => HubOpen
  BY DEF HubOpen, TypeOK
<1> QED BY <1>1 DEF ChannelInv, OneChannel, TimerMeansAway, DeletedHasNoChannel

LEMMA ChannelStep == TypeOK /\ ChannelInv /\ [Next]_vars => ChannelInv'
<1> SUFFICES ASSUME TypeOK, ChannelInv, [Next]_vars PROVE ChannelInv'
  OBVIOUS
<1>1. CASE UNCHANGED <<sock, byDevice, timer>> /\ (status' = "revoked" => status = "revoked")
  BY <1>1, NoOpening
<1>2. ASSUME NEW s \in Sockets, Register(s) PROVE ChannelInv'
  <2>1. /\ ~timer' /\ byDevice' = s /\ status' = status /\ status # "revoked"
        /\ sock' = IF byDevice = NoSocket THEN [sock EXCEPT ![s] = "open"] ELSE Displaced(s)
    BY <1>2 DEF Register, Revoked
  <2>2. \A r \in Sockets : sock[r] = "open" => byDevice = r
    BY DEF ChannelInv, OneChannel
  <2>3. ASSUME NEW r \in Sockets, r # s PROVE sock'[r] # "open"
    <3>1. CASE byDevice = NoSocket
      BY <2>1, <2>2, <2>3, <3>1, CarriersDiffer DEF TypeOK
    <3>2. CASE byDevice # NoSocket
      <4>1. CASE sock[r] = "open"
        <5>1. byDevice = r
          BY <2>2, <4>1
        <5> QED BY <2>1, <2>3, <3>2, <4>1, <5>1 DEF Displaced, TypeOK
      <4>2. CASE sock[r] # "open"
        BY <2>1, <2>3, <3>2, <4>2 DEF Displaced, TypeOK
      <4> QED BY <4>1, <4>2
    <3> QED BY <3>1, <3>2
  <2> QED BY <2>1, <2>3 DEF ChannelInv, OneChannel, TimerMeansAway, DeletedHasNoChannel
<1>3. ASSUME NEW s \in Sockets, Unregister(s) PROVE ChannelInv'
  <2>1. /\ sock[s] = "closing" /\ sock' = [sock EXCEPT ![s] = "closed"]
        /\ byDevice' = (IF byDevice = s THEN NoSocket ELSE byDevice)
        /\ timer' = timer /\ status' = status
    BY <1>3 DEF Unregister, OwnsEntry
  <2>2. \A r \in Sockets : sock'[r] = "open" => sock[r] = "open" /\ r # s
    BY <2>1 DEF TypeOK
  <2>3. HubOpen' => HubOpen
    BY <2>1, <2>2 DEF HubOpen, TypeOK
  <2>4. OneChannel'
    <3>1. ASSUME NEW r \in Sockets, sock'[r] = "open" PROVE byDevice' = r
      <4>1. byDevice = r /\ r # s
        BY <2>2, <3>1 DEF ChannelInv, OneChannel
      <4> QED BY <2>1, <4>1
    <3> QED BY <3>1 DEF OneChannel
  <2> QED BY <2>1, <2>3, <2>4 DEF ChannelInv, TimerMeansAway, DeletedHasNoChannel
<1>4. ASSUME NEW s \in Sockets, Gate(s) \/ RegisterRefused(s) \/ Close(s) PROVE ChannelInv'
  <2>1. /\ byDevice' = byDevice /\ timer' = timer /\ status' = status
        /\ \A r \in Sockets : sock'[r] = "open" => sock[r] = "open"
    BY <1>4 DEF Gate, RegisterRefused, Close, TypeOK
  <2> QED BY <2>1, NoOpening
<1>5. CASE StartTimer
  <2>1. /\ UNCHANGED <<sock, byDevice, status>> /\ timer' = (timer \/ ~HubOpen)
    BY <1>5 DEF StartTimer, GraceStarts
  <2>2. HubOpen' = HubOpen
    BY <2>1 DEF HubOpen
  <2> QED BY <2>1, <2>2 DEF ChannelInv, OneChannel, TimerMeansAway, DeletedHasNoChannel
<1>6. CASE TimerFires
  <2>1. UNCHANGED <<sock, byDevice, status>> /\ ~timer'
    BY <1>6 DEF TimerFires
  <2>2. HubOpen' = HubOpen
    BY <2>1 DEF HubOpen
  <2> QED BY <2>1, <2>2 DEF ChannelInv, OneChannel, TimerMeansAway, DeletedHasNoChannel
<1>7. ASSUME NEW c \in Carriers, PushStart(c) PROVE ChannelInv'
  <2>1. /\ byDevice' = byDevice /\ timer' = timer /\ status' = status
        /\ \A r \in Sockets : sock'[r] = "open" => sock[r] = "open"
    BY <1>7 DEF PushStart, TypeOK
  <2> QED BY <2>1, NoOpening
<1>8. CASE SuspendDisconnect
  <2>1. /\ byDevice' = byDevice /\ timer' = timer /\ status' = status
        /\ \A r \in Sockets : sock'[r] = "open" => sock[r] = "open"
    BY <1>8 DEF SuspendDisconnect, CloseChannel, TypeOK
  <2> QED BY <2>1, NoOpening
<1>9. CASE CloseByTenant
  <2>1. byDevice' = byDevice /\ timer' = timer /\ sock' = CloseChannel
    BY <1>9 DEF CloseByTenant
  <2>2. \A r \in Sockets : sock'[r] = "open" => sock[r] = "open"
    BY <2>1 DEF CloseChannel, TypeOK
  <2>3. ~HubOpen'
    BY <2>1 DEF HubOpen, CloseChannel, TypeOK
  <2> QED BY <2>1, <2>2, <2>3 DEF ChannelInv, OneChannel, TimerMeansAway, DeletedHasNoChannel
<1>10. CASE ServerRestart
  <2>1. byDevice' = NoSocket /\ ~timer' /\ \A r \in Sockets : sock'[r] # "open"
    BY <1>10 DEF ServerRestart
  <2> QED BY <2>1 DEF ChannelInv, OneChannel, TimerMeansAway, DeletedHasNoChannel, HubOpen
<1>11. ASSUME NEW s \in Sockets, Drain(s) \/ DrainFails(s) PROVE ChannelInv'
  BY <1>1, <1>11 DEF Drain, DrainFails
<1>12. ASSUME NEW p, RecoverStep(p) PROVE ChannelInv'
  BY <1>1, <1>12 DEF RecoverStep, Recover, RecoverFails, Announce
<1>13. ASSUME NEW d \in Declarers,
              DeclareRead(d) \/ Raise(d) \/ RaiseFails(d) \/ DeclareCheck(d) \/ DeclareClose(d)
       PROVE  ChannelInv'
  BY <1>1, <1>13 DEF DeclareRead, Raise, RaiseFails, DeclareCheck, DeclareClose
<1>14. ASSUME NEW c \in Carriers, PushPresence(c) \/ PushReply(c) PROVE ChannelInv'
  BY <1>1, <1>14 DEF PushPresence, PushReply
<1>15. CASE \/ SilenceGrows \/ SweepSelect \/ SweepEmit \/ SuspendResolve \/ Approve \/ Suspend
            \/ DeleteTenant \/ UNCHANGED vars
  BY <1>1, <1>15 DEF SilenceGrows, SweepSelect, SweepEmit, SuspendResolve, Approve, Suspend,
                     DeleteTenant, vars
<1> QED BY <1>2, <1>3, <1>4, <1>5, <1>6, <1>7, <1>8, <1>9, <1>10, <1>11, <1>12, <1>13, <1>14,
           <1>15 DEF Next, RegisterStep, DeclareStep, PushStep

LEMMA ChannelHolds == Spec => []ChannelInv
<1>1. Init => ChannelInv
  BY DEF Init, ChannelInv, OneChannel, TimerMeansAway, DeletedHasNoChannel, HubOpen
<1> QED BY <1>1, TypeCorrect, ChannelStep, PTL DEF Spec

\* A device has at most one live channel, however many sockets it opens and
\* however late the close events of replaced ones are handled (register
\* closes what it displaces, _unregister removes only its own entry).
THEOREM OneChannelHolds == Spec => []OneChannel
<1>1. ChannelInv => OneChannel
  BY DEF ChannelInv
<1> QED BY <1>1, ChannelHolds, PTL

\* A connected agent is never timed out: no grace timer is pending while the
\* channel is open, although it is created after an await
\* (_startOfflineTimer looks at the channel again, register cancels it).
THEOREM TimerMeansAwayHolds == Spec => []TimerMeansAway
<1>1. ChannelInv => TimerMeansAway
  BY DEF ChannelInv
<1> QED BY <1>1, ChannelHolds, PTL

\* Once closeByTenant has run, no upgrade in flight gives the agent of the
\* deleted tenant a channel again (register consults revokedTenants).
THEOREM DeletedHasNoChannelHolds == Spec => []DeletedHasNoChannel
<1>1. ChannelInv => DeletedHasNoChannel
  BY DEF ChannelInv
<1> QED BY <1>1, ChannelHolds, PTL

(***************************************************************************)
(* Outages.  Besides the channel's invariant the argument needs that an    *)
(* agent not approved yet has no incident, so that its approval cannot     *)
(* turn up one that nobody closes.                                         *)
(***************************************************************************)
UndeclaredInv ==
    count.suspend = 0 =>
        /\ status # "suspended"
        /\ status = "pending" =>
              ~incident /\ \A d \in Declarers : pc[<<"declare", d>>] # "raise"

\* The counts only grow.
LEMMA CountsGrow ==
    ASSUME TypeOK, [Next]_vars
    PROVE  /\ count'.fail = 0 => count.fail = 0
           /\ count'.suspend = 0 => count.suspend = 0
<1>0. count \in Counts
  BY DEF TypeOK, Counts
<1>1. CASE count' = count
  BY <1>1
<1>2. ASSUME \/ Bump("connect", MaxConnects) \/ Bump("admin", MaxAdmin) \/ Bump("http", MaxHttp)
             \/ Bump("suspend", MaxSuspends) \/ Fault("fail") \/ Fault("restart")
      PROVE  /\ count'.fail = 0 => count.fail = 0
             /\ count'.suspend = 0 => count.suspend = 0
  <2>1. CASE Bump("connect", MaxConnects) BY <1>0, <2>1 DEF Bump, Counts
  <2>2. CASE Bump("admin", MaxAdmin) BY <1>0, <2>2 DEF Bump, Counts
  <2>3. CASE Bump("http", MaxHttp) BY <1>0, <2>3 DEF Bump, Counts
  <2>4. CASE Bump("suspend", MaxSuspends) BY <1>0, <2>4 DEF Bump, Counts
  <2>5. CASE Fault("fail") BY <1>0, <2>5 DEF Fault, Counts
  <2>6. CASE Fault("restart") BY <1>0, <2>6 DEF Fault, Counts
  <2> QED BY <1>2, <2>1, <2>2, <2>3, <2>4, <2>5, <2>6
<1>3. ASSUME NEW s \in Sockets,
             \/ Gate(s) \/ Register(s) \/ RegisterRefused(s) \/ Close(s) \/ Unregister(s)
             \/ Drain(s) \/ DrainFails(s)
      PROVE  count' = count \/ Bump("connect", MaxConnects) \/ Fault("fail")
  BY <1>3 DEF Gate, Register, RegisterRefused, Close, Unregister, Drain, DrainFails
<1>4. ASSUME NEW p, RecoverStep(p) PROVE count' = count \/ Fault("fail")
  BY <1>4 DEF RecoverStep, Recover, RecoverFails, Announce
<1>5. ASSUME NEW d \in Declarers,
             DeclareRead(d) \/ Raise(d) \/ RaiseFails(d) \/ DeclareCheck(d) \/ DeclareClose(d)
      PROVE  count' = count \/ Fault("fail")
  BY <1>5 DEF DeclareRead, Raise, RaiseFails, DeclareCheck, DeclareClose
<1>6. ASSUME NEW c \in Carriers, PushStart(c) \/ PushPresence(c) \/ PushReply(c)
      PROVE  count' = count \/ Bump("http", MaxHttp)
  BY <1>6 DEF PushStart, PushPresence, PushReply
<1>7. ASSUME \/ StartTimer \/ TimerFires \/ SilenceGrows \/ SweepSelect \/ SweepEmit
             \/ SuspendResolve \/ SuspendDisconnect \/ CloseByTenant \/ UNCHANGED vars
      PROVE  count' = count
  BY <1>7 DEF StartTimer, TimerFires, SilenceGrows, SweepSelect, SweepEmit,
              SuspendResolve, SuspendDisconnect, CloseByTenant, vars
<1>8. ASSUME Approve \/ Suspend \/ DeleteTenant \/ ServerRestart
      PROVE  Bump("admin", MaxAdmin) \/ Bump("suspend", MaxSuspends) \/ Fault("restart")
  BY <1>8 DEF Approve, Suspend, DeleteTenant, ServerRestart
<1> QED BY <1>1, <1>2, <1>3, <1>4, <1>5, <1>6, <1>7, <1>8
        DEF Next, RegisterStep, DeclareStep, PushStep

\* What a failing statement or a suspension leaves in the counts.
LEMMA FaultsShow ==
    ASSUME TypeOK
    PROVE  /\ Fault("fail") => count'.fail # 0
           /\ Bump("suspend", MaxSuspends) => count'.suspend # 0
<1>0. count \in Counts
  BY DEF TypeOK, Counts
<1> QED BY <1>0 DEF Fault, Bump, Counts

LEMMA UndeclaredStep == TypeOK /\ UndeclaredInv /\ [Next]_vars => UndeclaredInv'
<1> SUFFICES ASSUME TypeOK, UndeclaredInv, [Next]_vars, count'.suspend = 0
             PROVE  /\ status' # "suspended"
                    /\ status' = "pending" =>
                          ~incident' /\ \A d \in Declarers : pc'[<<"declare", d>>] # "raise"
  BY DEF UndeclaredInv
<1>0. /\ status # "suspended"
      /\ status = "pending" => ~incident /\ \A d \in Declarers : pc[<<"declare", d>>] # "raise"
  BY CountsGrow DEF UndeclaredInv
<1>1. CASE status' \notin {"pending", "suspended"}
  BY <1>1
<1>2. CASE status' = status /\ (incident' => incident) /\ status = "pending"
           /\ \A d \in Declarers : pc'[<<"declare", d>>] = "raise" => pc[<<"declare", d>>] = "raise"
  BY <1>0, <1>2
<1>3. CASE status' = status /\ status # "pending"
  BY <1>0, <1>3
<1>4. ASSUME NEW p, NEW from, NEW to, Move(p, from, to), to # "raise", NEW d \in Declarers,
             pc'[<<"declare", d>>] = "raise"
      PROVE  pc[<<"declare", d>>] = "raise"
  <2>1. <<"declare", d>> \in Procs /\ pc' = [pc EXCEPT ![p] = to]
    BY <1>4 DEF Move, Procs
  <2> QED BY <1>4, <2>1 DEF TypeOK
<1>5. ASSUME NEW s \in Sockets,
             \/ Gate(s) \/ Register(s) \/ RegisterRefused(s) \/ Close(s) \/ Unregister(s)
             \/ Drain(s) \/ DrainFails(s)
      PROVE  /\ status' = status /\ incident' = incident
             /\ \A d \in Declarers : pc'[<<"declare", d>>] = "raise" => pc[<<"declare", d>>] = "raise"
  BY <1>4, <1>5 DEF Gate, Register, RegisterRefused, Close, Unregister, Drain, DrainFails
<1>6. ASSUME NEW p, RecoverStep(p)
      PROVE  /\ status' = status /\ (incident' => incident)
             /\ \A d \in Declarers : pc'[<<"declare", d>>] = "raise" => pc[<<"declare", d>>] = "raise"
  <2>1. AfterRecover(p) # "raise"
    BY DEF AfterRecover
  <2> QED BY <1>4, <1>6, <2>1 DEF RecoverStep, Recover, RecoverFails, Announce
<1>7. ASSUME NEW c \in Carriers, PushStart(c) \/ PushPresence(c) \/ PushReply(c)
      PROVE  /\ status' = status /\ incident' = incident
             /\ \A d \in Declarers : pc'[<<"declare", d>>] = "raise" => pc[<<"declare", d>>] = "raise"
  BY <1>4, <1>7 DEF PushStart, PushPresence, PushReply
<1>8. ASSUME NEW d \in Declarers, status = "pending",
             DeclareRead(d) \/ RaiseFails(d) \/ DeclareClose(d)
      PROVE  /\ status' = status /\ (incident' => incident)
             /\ \A e \in Declarers : pc'[<<"declare", e>>] = "raise" => pc[<<"declare", e>>] = "raise"
  BY <1>4, <1>8 DEF DeclareRead, RaiseFails, DeclareClose
<1>9. ASSUME NEW d \in Declarers, status = "pending" PROVE ~ Raise(d)
  BY <1>0, <1>9 DEF Raise, Move
<1>10. ASSUME NEW d \in Declarers, DeclareCheck(d)
       PROVE  /\ status' = status /\ incident' = incident
              /\ \A e \in Declarers : pc'[<<"declare", e>>] = "raise" => pc[<<"declare", e>>] = "raise"
  <2>1. AfterRaise(d) # "raise"
    BY DEF AfterRaise
  <2>2. \E from : Move(<<"declare", d>>, from, AfterRaise(d))
    BY <1>10 DEF DeclareCheck, Move
  <2> QED BY <1>4, <1>10, <2>1, <2>2 DEF DeclareCheck
<1>11. ASSUME NEW d \in Declarers,
              DeclareRead(d) \/ Raise(d) \/ RaiseFails(d) \/ DeclareCheck(d) \/ DeclareClose(d)
       PROVE  status' = status
  BY <1>11 DEF DeclareRead, Raise, RaiseFails, DeclareCheck, DeclareClose
<1>12. ASSUME SweepSelect \/ SweepEmit \/ SuspendResolve \/ SuspendDisconnect
       PROVE  /\ status' = status /\ (incident' => incident)
              /\ \A d \in Declarers : pc'[<<"declare", d>>] = "raise" => pc[<<"declare", d>>] = "raise"
  <2>1. CASE SweepSelect \/ SweepEmit
    BY <1>4, <2>1 DEF SweepSelect, SweepEmit
  <2>2. CASE SuspendResolve
    <3>1. \/ Move(<<"suspend", Http>>, "resolve", "disconnect")
          \/ Move(<<"suspend", Http>>, "resolve again", "idle")
      BY <2>2 DEF SuspendResolve
    <3>2. \A d \in Declarers : pc'[<<"declare", d>>] = "raise" => pc[<<"declare", d>>] = "raise"
      BY <1>4, <3>1
    <3> QED BY <2>2, <3>2 DEF SuspendResolve
  <2>3. CASE SuspendDisconnect
    BY <1>4, <2>3 DEF SuspendDisconnect
  <2> QED BY <1>12, <2>1, <2>2, <2>3
<1>13. ASSUME StartTimer \/ SilenceGrows \/ UNCHANGED vars
       PROVE  UNCHANGED <<status, incident, pc>>
  BY <1>13 DEF StartTimer, SilenceGrows, vars
<1>14. ASSUME TimerFires
       PROVE  /\ status' = status /\ incident' = incident
              /\ \A d \in Declarers : pc'[<<"declare", d>>] = "raise" => pc[<<"declare", d>>] = "raise"
  <2>1. \A d \in Declarers : <<"declare", d>> \in Procs
    BY DEF Procs
  <2> QED BY <1>14, <2>1 DEF TimerFires, TypeOK
<1>15. ASSUME Approve \/ DeleteTenant \/ CloseByTenant
       PROVE  status' \notin {"pending", "suspended"}
  BY <1>15 DEF Approve, DeleteTenant, CloseByTenant
<1>16. ASSUME Suspend PROVE FALSE
  BY <1>16, FaultsShow DEF Suspend
<1>17. ASSUME ServerRestart
       PROVE  /\ status' = status /\ incident' = incident
              /\ \A d \in Declarers : pc'[<<"declare", d>>] = "raise" => pc[<<"declare", d>>] = "raise"
  <2>1. \A d \in Declarers : <<"declare", d>> \in Procs
    BY DEF Procs
  <2> QED BY <1>17, <2>1 DEF ServerRestart
<1> QED BY <1>1, <1>2, <1>3, <1>5, <1>6, <1>7, <1>8, <1>9, <1>10, <1>11, <1>12, <1>13, <1>14,
           <1>15, <1>16, <1>17 DEF Next, RegisterStep, DeclareStep, PushStep

ClosingPlaces == {"drain", "recover", "opened", "bumped", "close"}

\* A process that moves on from another place than those that close the
\* incident takes nothing away from what will close it.
LEMMA ClosersKept ==
    ASSUME TypeOK, WillClose, NEW p, NEW from, NEW to, Move(p, from, to),
           from \notin ClosingPlaces, presence' => presence,
           \A s \in Sockets : sock[s] = "open" => sock'[s] = "open"
    PROVE  WillClose'
<1>1. ASSUME NEW q \in Procs, pc[q] \in ClosingPlaces PROVE pc'[q] = pc[q]
  BY <1>1 DEF Move, TypeOK
<1>2. /\ \A s \in Sockets : <<"register", s>> \in Procs
      /\ \A d \in Declarers : <<"declare", d>> \in Procs
      /\ \A c \in Carriers : <<"push", c>> \in Procs
  BY DEF Procs
<1>3. CASE \E s \in Sockets : sock[s] = "open" /\ pc[<<"register", s>>] \in {"drain", "recover"}
  <2>1. PICK s \in Sockets : sock[s] = "open" /\ pc[<<"register", s>>] \in {"drain", "recover"}
    BY <1>3
  <2>2. pc'[<<"register", s>>] = pc[<<"register", s>>]
    BY <1>1, <1>2, <2>1 DEF ClosingPlaces
  <2> QED BY <2>1, <2>2 DEF WillClose
<1>4. CASE \E d \in Declarers : pc[<<"declare", d>>] \in {"opened", "bumped", "close", "recover"}
  <2>1. PICK d \in Declarers : pc[<<"declare", d>>] \in {"opened", "bumped", "close", "recover"}
    BY <1>4
  <2>2. pc'[<<"declare", d>>] = pc[<<"declare", d>>]
    BY <1>1, <1>2, <2>1 DEF ClosingPlaces
  <2> QED BY <2>1, <2>2 DEF WillClose
<1>5. CASE \E c \in Carriers : pc[<<"push", c>>] = "recover"
  <2>1. PICK c \in Carriers : pc[<<"push", c>>] = "recover"
    BY <1>5
  <2>2. pc'[<<"push", c>>] = pc[<<"push", c>>]
    BY <1>1, <1>2, <2>1 DEF ClosingPlaces
  <2> QED BY <2>1, <2>2 DEF WillClose
<1>6. CASE ~presence
  BY <1>6 DEF WillClose
<1> QED BY <1>3, <1>4, <1>5, <1>6 DEF WillClose

OutageInv == TypeOK /\ ChannelInv /\ UndeclaredInv /\ NoForgottenOutage

LEMMA OutageStep == OutageInv /\ [Next]_vars => NoForgottenOutage'
<1> SUFFICES ASSUME OutageInv, [Next]_vars, incident', HubOpen', status' = "approved",
                    count'.fail = 0, count'.suspend = 0
             PROVE  WillClose'
  BY DEF NoForgottenOutage
<1>0. /\ TypeOK /\ OneChannel /\ UndeclaredInv /\ count.fail = 0 /\ count.suspend = 0
      /\ ~Fault("fail") /\ ~Bump("suspend", MaxSuspends)
  BY CountsGrow, FaultsShow DEF OutageInv, ChannelInv
<1>1. ASSUME incident, HubOpen, status = "approved" PROVE WillClose
  BY <1>0, <1>1 DEF OutageInv, NoForgottenOutage
<1>2. ASSUME UNCHANGED <<incident, status, pc, presence>>, HubOpen,
             \A s \in Sockets : sock[s] = "open" => sock'[s] = "open"
      PROVE  WillClose'
  BY <1>1, <1>2 DEF WillClose
<1>3. ASSUME NEW p, NEW from, NEW to, Move(p, from, to), from \notin ClosingPlaces,
             UNCHANGED <<incident, status, presence, sock, byDevice>>
      PROVE  WillClose'
  <2>1. HubOpen
    BY <1>3 DEF HubOpen
  <2> QED BY <1>0, <1>1, <1>3, <2>1, ClosersKept
<1>4. ASSUME NEW s \in Sockets, Register(s) PROVE WillClose'
  <2>1. byDevice' = s /\ pc' = [pc EXCEPT ![<<"register", s>>] = "drain"]
    BY <1>4 DEF Register, Move
  <2>2. sock'[s] = "open" /\ <<"register", s>> \in Procs
    BY <2>1 DEF HubOpen, Procs
  <2>3. pc'[<<"register", s>>] = "drain"
    BY <1>0, <2>1, <2>2 DEF TypeOK
  <2> QED BY <2>2, <2>3 DEF WillClose
<1>5. ASSUME NEW s \in Sockets, Drain(s) PROVE WillClose'
  <2>1. /\ UNCHANGED <<sock, byDevice, status, incident, presence>> /\ status = "approved"
        /\ pc[<<"register", s>>] = "drain" /\ pc' = [pc EXCEPT ![<<"register", s>>] = "recover"]
        /\ HubOpen
    BY <1>5 DEF Drain, Move, HubOpen
  <2>2. /\ \A r \in Sockets : <<"register", r>> \in Procs
        /\ \A d \in Declarers : <<"declare", d>> \in Procs
        /\ \A c \in Carriers : <<"push", c>> \in Procs
    BY DEF Procs
  <2>3. /\ \A r \in Sockets : pc'[<<"register", r>>] =
              IF r = s THEN "recover" ELSE pc[<<"register", r>>]
        /\ \A d \in Declarers : pc'[<<"declare", d>>] = pc[<<"declare", d>>]
        /\ \A c \in Carriers : pc'[<<"push", c>>] = pc[<<"push", c>>]
    BY <1>0, <2>1, <2>2 DEF TypeOK
  <2>4. WillClose
    BY <1>1, <2>1
  <2> QED BY <2>1, <2>3, <2>4 DEF WillClose
<1>6. ASSUME NEW s \in Sockets, Gate(s) \/ RegisterRefused(s) \/ Unregister(s) PROVE WillClose'
  <2>1. /\ UNCHANGED <<incident, status, pc, presence>>
        /\ \A r \in Sockets : sock[r] = "open" <=> sock'[r] = "open"
        /\ byDevice' = byDevice \/ byDevice' = NoSocket
    BY <1>0, <1>6 DEF Gate, RegisterRefused, Unregister, TypeOK
  <2>2. HubOpen
    BY <1>0, <2>1 DEF HubOpen, TypeOK
  <2> QED BY <1>2, <2>1, <2>2
<1>7. ASSUME NEW s \in Sockets, Close(s) PROVE FALSE
  <2>1. sock[s] = "open" /\ sock' = [sock EXCEPT ![s] = "closing"] /\ byDevice' = byDevice
    BY <1>7 DEF Close
  <2>2. byDevice = s
    BY <1>0, <2>1 DEF OneChannel
  <2> QED BY <1>0, <2>1, <2>2 DEF HubOpen, TypeOK
<1>8. ASSUME NEW s \in Sockets, DrainFails(s) PROVE FALSE
  BY <1>0, <1>8 DEF DrainFails
<1>9. ASSUME NEW p, RecoverStep(p) PROVE WillClose'
  <2>1. CASE Recover(p)
    BY <2>1 DEF Recover
  <2>2. CASE RecoverFails(p)
    BY <1>0, <2>2 DEF RecoverFails
  <2>3. CASE Announce(p)
    BY <1>3, <2>3 DEF Announce, ClosingPlaces
  <2> QED BY <1>9, <2>1, <2>2, <2>3 DEF RecoverStep
<1>10. CASE StartTimer \/ SilenceGrows \/ UNCHANGED vars
  <2>1. UNCHANGED <<incident, status, pc, presence, sock, byDevice>>
    BY <1>10 DEF StartTimer, SilenceGrows, vars
  <2>2. HubOpen
    BY <2>1 DEF HubOpen
  <2> QED BY <1>2, <2>1, <2>2
<1>11. CASE TimerFires
  <2>1. ~presence'
    BY <1>11 DEF TimerFires, Revoked
  <2> QED BY <2>1 DEF WillClose
<1>12. CASE SweepSelect
  BY <1>3, <1>12 DEF SweepSelect, ClosingPlaces
<1>13. CASE SweepEmit
  BY <1>3, <1>13 DEF SweepEmit, ClosingPlaces
<1>14. ASSUME NEW d \in Declarers, DeclareRead(d) PROVE WillClose'
  BY <1>3, <1>14 DEF DeclareRead, ClosingPlaces
<1>15. ASSUME NEW d \in Declarers, Raise(d) PROVE WillClose'
  <2>1. ~Gone /\ <<"declare", d>> \in Procs
    BY <1>15 DEF Raise, Gone, Procs
  <2>2. pc'[<<"declare", d>>] = IF incident THEN "bumped" ELSE "opened"
    BY <1>0, <1>15, <2>1 DEF Raise, Move, TypeOK
  <2> QED BY <2>2 DEF WillClose
<1>16. ASSUME NEW d \in Declarers, RaiseFails(d) PROVE FALSE
  BY <1>0, <1>16 DEF RaiseFails
<1>17. ASSUME NEW d \in Declarers, DeclareCheck(d) PROVE WillClose'
  <2>1. /\ pc[<<"declare", d>>] \in {"opened", "bumped"}
        /\ pc' = [pc EXCEPT ![<<"declare", d>>] = AfterRaise(d)]
        /\ UNCHANGED <<sock, byDevice>> /\ <<"declare", d>> \in Procs
    BY <1>17 DEF DeclareCheck, Procs
  <2>2. IsConnected
    BY <2>1 DEF HubOpen, IsConnected
  <2>3. AfterRaise(d) \in {"close", "recover"}
    BY <2>1, <2>2 DEF AfterRaise
  <2>4. pc'[<<"declare", d>>] = AfterRaise(d)
    BY <1>0, <2>1 DEF TypeOK
  <2> QED BY <2>3, <2>4 DEF WillClose
<1>18. ASSUME NEW d \in Declarers, DeclareClose(d) PROVE FALSE
  BY <1>18 DEF DeclareClose
<1>19. ASSUME NEW c \in Carriers, PushStart(c) PROVE WillClose'
  BY <1>3, <1>19 DEF PushStart, PushRefused, ClosingPlaces
<1>20. ASSUME NEW c \in Carriers, PushPresence(c) PROVE WillClose'
  <2>1. PICK gap \in BOOLEAN :
           /\ Move(<<"push", c>>, "presence", IF CameOnline(gap) THEN "recover" ELSE "reply")
           /\ presence' = TRUE /\ UNCHANGED <<sock, byDevice, status, incident>>
    BY <1>20 DEF PushPresence
  <2>2. CASE CameOnline(gap)
    <3>1. <<"push", c>> \in Procs
      BY DEF Procs
    <3>2. pc'[<<"push", c>>] = "recover"
      BY <1>0, <2>1, <2>2, <3>1 DEF Move, TypeOK
    <3> QED BY <3>2 DEF WillClose
  <2>3. CASE ~CameOnline(gap)
    <3>1. presence = TRUE
      BY <1>0, <2>3 DEF CameOnline, TypeOK
    <3> QED BY <1>3, <2>1, <3>1 DEF ClosingPlaces
  <2> QED BY <2>2, <2>3
<1>21. ASSUME NEW c \in Carriers, PushReply(c) PROVE WillClose'
  BY <1>3, <1>21 DEF PushReply, ClosingPlaces
<1>22. CASE Approve
  <2>1. status = "pending" /\ incident
    BY <1>0, <1>22 DEF Approve, UndeclaredInv
  <2> QED BY <1>0, <2>1 DEF UndeclaredInv
<1>23. CASE Suspend \/ SuspendResolve \/ DeleteTenant \/ CloseByTenant \/ ServerRestart
  BY <1>0, <1>23 DEF Suspend, SuspendResolve, DeleteTenant, CloseByTenant, ServerRestart, HubOpen
<1>24. CASE SuspendDisconnect
  <2>1. sock' = CloseChannel /\ byDevice' = byDevice
    BY <1>24 DEF SuspendDisconnect
  <2>2. ~HubOpen'
    BY <1>0, <2>1 DEF HubOpen, CloseChannel, TypeOK
  <2> QED BY <2>2
<1> QED BY <1>4, <1>5, <1>6, <1>7, <1>8, <1>9, <1>10, <1>11, <1>12, <1>13, <1>14, <1>15, <1>16,
           <1>17, <1>18, <1>19, <1>20, <1>21, <1>22, <1>23, <1>24
        DEF Next, RegisterStep, DeclareStep, PushStep

\* The memory of a declared outage never outlives the outage: as long as no
\* statement failed, an open offline incident of a connected agent has a
\* registration, a declaration, a push or the next heartbeat left to close it
\* (declareOffline's second look, recoverOnline, notePresence).
THEOREM NoOutageForgotten == Spec => []NoForgottenOutage
<1>1. Init => OutageInv
  <2> SUFFICES ASSUME Init PROVE OutageInv
    OBVIOUS
  <2>1. TypeOK
    BY InitType
  <2>2. ChannelInv
    BY DEF Init, ChannelInv, OneChannel, TimerMeansAway, DeletedHasNoChannel, HubOpen
  <2>3. /\ ~incident /\ status \in {"pending", "approved"}
        /\ \A d \in Declarers : pc[<<"declare", d>>] = "idle"
    <3>1. \A d \in Declarers : <<"declare", d>> \in Procs
      BY DEF Procs
    <3> QED BY <3>1 DEF Init
  <2>4. UndeclaredInv /\ NoForgottenOutage
    BY <2>3 DEF UndeclaredInv, NoForgottenOutage
  <2> QED BY <2>1, <2>2, <2>4 DEF OutageInv
<1>2. OutageInv /\ [Next]_vars => OutageInv'
  BY NextType, ChannelStep, UndeclaredStep, OutageStep DEF OutageInv
<1>3. OutageInv => NoForgottenOutage
  BY DEF OutageInv
<1> QED BY <1>1, <1>2, <1>3, PTL DEF Spec
=============================================================================
