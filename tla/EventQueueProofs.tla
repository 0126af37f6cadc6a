------------------------- MODULE EventQueueProofs -------------------------
(***************************************************************************)
(* Theorems about EventQueue, for every capacity, batch size and number of *)
(* watchers: type correctness (with the bound on the queue), the           *)
(* accounting of dropped events, no silent loss, and order from the log    *)
(* watchers to the socket.                                                 *)
(***************************************************************************)
EXTENDS EventQueue, SequenceTheorems, TLAPS

(* What trimLocked leaves: a suffix no longer than the capacity.            *)
LEMMA TrimKeepsSuffix ==
    ASSUME NEW S, NEW s \in Seq(S)
    PROVE  /\ Over(s) \in 0 .. Len(s) /\ Over(s) \in Nat
           /\ SubSeq(s, Over(s) + 1, Len(s)) \in Seq(S)
           /\ Len(SubSeq(s, Over(s) + 1, Len(s))) = Len(s) - Over(s)
           /\ Len(s) - Over(s) <= Capacity
           /\ { s[i] : i \in 1 .. Over(s) } \subseteq S
<1>1. /\ Len(s) \in Nat /\ Over(s) \in 0 .. Len(s) /\ Over(s) \in Nat
      /\ Len(s) - Over(s) <= Capacity
  BY QueueAssumption DEF Over
<1>2. \A i \in 1 .. Len(s) : s[i] \in S
  BY ElementOfSeq
<1>3. \A i \in Over(s) + 1 .. Len(s) : s[i] \in S
  BY <1>1, <1>2
<1>4. /\ SubSeq(s, Over(s) + 1, Len(s)) \in Seq(S)
      /\ Len(SubSeq(s, Over(s) + 1, Len(s))) =
           IF Over(s) + 1 <= Len(s) THEN Len(s) - (Over(s) + 1) + 1 ELSE 0
  <2>1. Over(s) + 1 \in Int /\ Len(s) \in Int
    BY <1>1
  <2> QED BY <2>1, <1>3, SubSeqProperties
<1> QED BY <1>1, <1>2, <1>4

(* What PopBatch takes and leaves.                                          *)
LEMMA PopSplits ==
    ASSUME NEW S, items \in Seq(S)
    PROVE  /\ BatchLen \in 0 .. Len(items) /\ BatchLen <= BatchMax
           /\ SubSeq(items, 1, BatchLen) \in Seq(S)
           /\ Len(SubSeq(items, 1, BatchLen)) = BatchLen
           /\ AfterPop \in Seq(S)
           /\ Len(AfterPop) = Len(items) - BatchLen
<1>1. Len(items) \in Nat /\ BatchLen \in 0 .. Len(items) /\ BatchLen <= BatchMax
  BY QueueAssumption DEF BatchLen
<1>2. \A i \in 1 .. Len(items) : items[i] \in S
  BY ElementOfSeq
<1>3. /\ SubSeq(items, 1, BatchLen) \in Seq(S)
      /\ Len(SubSeq(items, 1, BatchLen)) =
           IF 1 <= BatchLen THEN BatchLen - 1 + 1 ELSE 0
  <2>1. BatchLen \in Int /\ \A i \in 1 .. BatchLen : items[i] \in S
    BY <1>1, <1>2
  <2> QED BY <2>1, SubSeqProperties
<1>4. /\ AfterPop \in Seq(S)
      /\ Len(AfterPop) =
           IF BatchLen + 1 <= Len(items) THEN Len(items) - (BatchLen + 1) + 1 ELSE 0
  <2>1. /\ BatchLen + 1 \in Int /\ Len(items) \in Int
        /\ \A i \in BatchLen + 1 .. Len(items) : items[i] \in S
    BY <1>1, <1>2
  <2> QED BY <2>1, SubSeqProperties DEF AfterPop
<1> QED BY <1>1, <1>3, <1>4

(***************************************************************************)
(* Type correctness.                                                       *)
(***************************************************************************)
LEMMA InitType == Init => TypeOK
<1> SUFFICES ASSUME Init PROVE TypeOK
  OBVIOUS
<1> USE DEF Init
<1>1. /\ <<>> \in EventSeq /\ Len(<<>>) = 0
      /\ <<>> \in Seq([event : 1 .. produced, session : Nat])
  BY EmptySeq DEF EventSeq
<1>2. Capacity \in Nat /\ BatchMax \in Nat
  BY QueueAssumption
<1>3. frame \in [events : EventSeq, dropped : Nat]
  BY <1>1
<1>4. flushCh \in BOOLEAN /\ done \in BOOLEAN /\ out \in BOOLEAN
  OBVIOUS
<1>5. /\ Len(items) <= Capacity /\ Len(batch) <= BatchMax
      /\ produced \in Nat /\ signalling \in Nat /\ sessionNo \in Nat /\ remaining \in Int
      /\ dropped \in Nat /\ taken \in Nat /\ trimmed \in Nat
      /\ reported \in Nat /\ confirmed \in Nat
  BY <1>1, <1>2
<1>6. /\ buffer \in EventSeq /\ drained \in EventSeq /\ items \in EventSeq /\ batch \in EventSeq
      /\ written \in Seq([event : 1 .. produced, session : Nat])
      /\ lost \subseteq 1 .. produced
  BY <1>1
<1>7. /\ pump \in {"wait", "drain", "push"} /\ session \in {"down", "up", "closing"}
      /\ flush \in {"idle", "take", "pop", "send", "wait", "requeue"}
      /\ writer \in {"run", "write", "result", "exit"} /\ result \in {"none", "ok", "err"}
  OBVIOUS
<1> QED BY ONLY <1>3, <1>4, <1>5, <1>6, <1>7 DEF TypeOK

LEMMA NextType == TypeOK /\ [Next]_vars => TypeOK'
<1> SUFFICES ASSUME TypeOK, [Next]_vars PROVE TypeOK'
  OBVIOUS
<1> USE DEF TypeOK, EventSeq, watcherVars, queueVars, flushVars, writerVars, sessionVars
<1>1. CASE AddEvent
  <2>1. produced' = produced + 1 /\ 1 .. produced \subseteq 1 .. produced'
    BY <1>1 DEF AddEvent
  <2>2. \A s \in Seq(1 .. produced) : s \in Seq(1 .. produced')
    BY <2>1, SeqMonotonic
  <2>3. buffer' \in Seq(1 .. produced')
    <3>1. buffer \in Seq(1 .. produced') /\ produced + 1 \in 1 .. produced'
      BY <2>1, <2>2
    <3>2. Append(buffer, produced + 1) \in Seq(1 .. produced')
      BY ONLY <3>1, AppendProperties
    <3> QED BY <1>1, <3>2 DEF AddEvent
  <2>4. written \in Seq([event : 1 .. produced', session : Nat])
    <3>1. [event : 1 .. produced, session : Nat] \subseteq [event : 1 .. produced', session : Nat]
      BY <2>1
    <3> QED BY <3>1, SeqMonotonic
  <2> QED BY <1>1, <2>1, <2>2, <2>3, <2>4 DEF AddEvent
<1>2. CASE Signal
  BY <1>2 DEF Signal
<1>3. CASE PumpReceive
  BY <1>3 DEF PumpReceive
<1>4. CASE DrainEvents
  BY <1>4, EmptySeq DEF DrainEvents
<1>5. CASE Push
  <2> DEFINE s == items \o drained
  <2>1. s \in Seq(1 .. produced)
    BY ConcatProperties
  <2> HIDE DEF s
  <2>2. /\ items' = SubSeq(s, Over(s) + 1, Len(s))
        /\ trimmed' = trimmed + Over(s) /\ dropped' = dropped + Over(s)
        /\ lost' = lost \union { s[i] : i \in 1 .. Over(s) }
    BY <1>5 DEF Push, trimLocked, s
  <2>3. /\ Over(s) \in Nat
        /\ SubSeq(s, Over(s) + 1, Len(s)) \in Seq(1 .. produced)
        /\ Len(SubSeq(s, Over(s) + 1, Len(s))) = Len(s) - Over(s)
        /\ Len(s) - Over(s) <= Capacity
        /\ { s[i] : i \in 1 .. Over(s) } \subseteq 1 .. produced
    BY ONLY <2>1, TrimKeepsSuffix
  <2>4. /\ items' \in Seq(1 .. produced) /\ Len(items') <= Capacity
        /\ lost' \subseteq 1 .. produced /\ trimmed' \in Nat /\ dropped' \in Nat
    <3>1. /\ trimmed' = trimmed + Over(s) /\ dropped' = dropped + Over(s)
          /\ Over(s) \in Nat /\ trimmed \in Nat /\ dropped \in Nat /\ taken \in Nat
      BY <2>2, <2>3
    <3>2. items' \in Seq(1 .. produced) /\ Len(items') <= Capacity
      BY <2>2, <2>3
    <3>3. lost' \subseteq 1 .. produced
      BY <2>2, <2>3
    <3>4. trimmed' \in Nat /\ dropped' \in Nat
      BY ONLY <3>1
    <3> QED BY <3>2, <3>3, <3>4
  <2>5. drained' \in Seq(1 .. produced)
    BY <1>5, EmptySeq DEF Push
  <2> QED BY <1>5, <2>4, <2>5 DEF Push
<1>6. CASE FlushStart
  BY <1>6, LenProperties DEF FlushStart
<1>7. CASE TakeDropped
  BY <1>7 DEF TakeDropped
<1>8. CASE PopBatch
  <2>0. items \in Seq(1 .. produced) /\ Len(items) \in Nat /\ Len(items) <= Capacity
    BY LenProperties
  <2>2. /\ BatchLen \in 0 .. Len(items) /\ BatchLen <= BatchMax
        /\ SubSeq(items, 1, BatchLen) \in Seq(1 .. produced)
        /\ Len(SubSeq(items, 1, BatchLen)) = BatchLen
        /\ AfterPop \in Seq(1 .. produced)
        /\ Len(AfterPop) = Len(items) - BatchLen
    BY ONLY <2>0, PopSplits
  <2>1. /\ BatchLen \in Int
        /\ batch' \in Seq(1 .. produced) /\ Len(batch') <= BatchMax
        /\ items' \in Seq(1 .. produced) /\ Len(items') <= Capacity
    <3>1. batch' = SubSeq(items, 1, BatchLen) /\ items' = AfterPop
      BY <1>8 DEF PopBatch
    <3>2. Capacity \in Nat /\ BatchMax \in Nat
      BY QueueAssumption
    <3> QED BY ONLY <2>0, <2>2, <3>1, <3>2
  <2> QED BY <1>8, <2>1 DEF PopBatch, RemainingAfter
<1>9. CASE FlushEnd
  BY <1>9 DEF FlushEnd, Kept
<1>10. CASE SendQueued
  BY <1>10 DEF SendQueued
<1>11. CASE SendRefused
  BY <1>11 DEF SendRefused
<1>12. CASE SendTimeout
  BY <1>12 DEF SendTimeout
<1>13. CASE SendWritten
  <2>1. batch' \in Seq(1 .. produced) /\ Len(batch') <= BatchMax
    BY <1>13, EmptySeq, QueueAssumption DEF SendWritten
  <2>2. confirmed' = confirmed + taken /\ confirmed' \in Nat
    <3>1. confirmed' = confirmed + taken
      BY <1>13 DEF SendWritten
    <3>2. confirmed \in Nat /\ taken \in Nat
      OBVIOUS
    <3> QED BY ONLY <3>1, <3>2
  <2> QED BY <1>13, <2>1, <2>2 DEF SendWritten
<1>14. CASE SendFailed
  BY <1>14 DEF SendFailed
<1>15. CASE Requeue
  <2>1. Merged \in Seq(1 .. produced)
    BY ConcatProperties DEF Merged
  <2>2. /\ items' = SubSeq(Merged, Over(Merged) + 1, Len(Merged))
        /\ trimmed' = trimmed + Over(Merged) /\ dropped' = Kept + Over(Merged)
        /\ lost' = lost \union { Merged[i] : i \in 1 .. Over(Merged) }
    BY <1>15 DEF Requeue, trimLocked
  <2>3. /\ Over(Merged) \in Nat
        /\ SubSeq(Merged, Over(Merged) + 1, Len(Merged)) \in Seq(1 .. produced)
        /\ Len(SubSeq(Merged, Over(Merged) + 1, Len(Merged))) = Len(Merged) - Over(Merged)
        /\ Len(Merged) - Over(Merged) <= Capacity
        /\ { Merged[i] : i \in 1 .. Over(Merged) } \subseteq 1 .. produced
    BY ONLY <2>1, TrimKeepsSuffix
  <2>4. /\ items' \in Seq(1 .. produced) /\ Len(items') <= Capacity
        /\ lost' \subseteq 1 .. produced /\ trimmed' \in Nat /\ dropped' \in Nat
    <3>1. /\ trimmed' = trimmed + Over(Merged) /\ dropped' = Kept + Over(Merged)
          /\ Over(Merged) \in Nat /\ trimmed \in Nat /\ dropped \in Nat /\ taken \in Nat
      BY <2>2, <2>3
    <3>2. items' \in Seq(1 .. produced) /\ Len(items') <= Capacity
      BY <2>2, <2>3
    <3>3. lost' \subseteq 1 .. produced
      BY <2>2, <2>3
    <3>4. trimmed' \in Nat /\ dropped' \in Nat
      BY ONLY <3>1 DEF Kept
    <3> QED BY <3>2, <3>3, <3>4
  <2>5. batch' \in Seq(1 .. produced) /\ Len(batch') <= BatchMax
    BY <1>15, EmptySeq, QueueAssumption DEF Requeue
  <2> QED BY <1>15, <2>4, <2>5 DEF Requeue
<1>16. CASE WriterTakes
  BY <1>16 DEF WriterTakes
<1>17. CASE WriteFrame
  <2> DEFINE T == [event : 1 .. produced, session : Nat]
             w == [i \in 1 .. Len(frame.events) |->
                      [event |-> frame.events[i], session |-> sessionNo]]
  <2>1. /\ frame.events \in Seq(1 .. produced) /\ Len(frame.events) \in Nat
        /\ \A i \in 1 .. Len(frame.events) : frame.events[i] \in 1 .. produced
    BY LenProperties, ElementOfSeq
  <2>2. w \in Seq(T)
    BY <2>1, IsASeq
  <2>3. written \o w \in Seq(T)
    BY <2>2, ConcatProperties
  <2> QED BY <1>17, <2>3 DEF WriteFrame
<1>18. CASE WriterResult
  BY <1>18 DEF WriterResult
<1>19. CASE WriterFails
  BY <1>19 DEF WriterFails
<1>20. CASE WriterStops
  BY <1>20 DEF WriterStops
<1>21. CASE Connect
  <2>1. done' \in BOOLEAN /\ out' \in BOOLEAN
    BY <1>21 DEF Connect
  <2>2. sessionNo' \in Nat
    BY <1>21 DEF Connect
  <2> QED BY <1>21, <2>1, <2>2 DEF Connect
<1>22. CASE SessionFails
  BY <1>22 DEF SessionFails
<1>23. CASE SessionReturns
  BY <1>23 DEF SessionReturns
<1>24. CASE Teardown
  BY <1>24 DEF Teardown
<1>25. CASE UNCHANGED vars
  BY <1>25 DEF vars
<1> QED
  BY <1>1, <1>2, <1>3, <1>4, <1>5, <1>6, <1>7, <1>8, <1>9, <1>10, <1>11, <1>12,
     <1>13, <1>14, <1>15, <1>16, <1>17, <1>18, <1>19, <1>20, <1>21, <1>22, <1>23,
     <1>24, <1>25 DEF Next, Flush

(* TypeOK is an invariant: in particular the queue never holds more than    *)
(* eventQueueCap events, whatever pump, flush and failing sessions do.      *)
THEOREM TypeCorrect == Spec => []TypeOK
<1> QED BY InitType, NextType, PTL DEF Spec

(***************************************************************************)
(* Accounting of dropped events.  The inductive invariant adds Handshake,  *)
(* which ties the count in hand to the frame the writer holds.             *)
(***************************************************************************)
AccountingInv == TypeOK /\ Handshake /\ DropAccounting

LEMMA InitAccounting == Init => AccountingInv
<1> SUFFICES ASSUME Init PROVE AccountingInv
  OBVIOUS
<1>1. TypeOK
  BY InitType
<1>2. Handshake
  BY DEF Init, Handshake
<1>3. DropAccounting
  BY DEF Init, DropAccounting
<1> QED BY <1>1, <1>2, <1>3 DEF AccountingInv

LEMMA NextHandshake == TypeOK /\ Handshake /\ [Next]_vars => Handshake'
<1> SUFFICES ASSUME TypeOK, Handshake, [Next]_vars PROVE Handshake'
  OBVIOUS
<1> USE DEF Handshake, watcherVars, queueVars, flushVars, writerVars, sessionVars
<1>1. CASE AddEvent \/ Signal \/ PumpReceive \/ DrainEvents \/ Push \/ UNCHANGED vars
  BY <1>1 DEF AddEvent, Signal, PumpReceive, DrainEvents, Push, vars
<1>2. CASE FlushStart \/ TakeDropped \/ PopBatch \/ FlushEnd
  BY <1>2 DEF FlushStart, TakeDropped, PopBatch, FlushEnd
<1>3. CASE SendQueued
  BY <1>3 DEF SendQueued
<1>4. CASE SendRefused \/ SendTimeout \/ SendFailed
  BY <1>4 DEF SendRefused, SendTimeout, SendFailed
<1>5. CASE SendWritten
  BY <1>5 DEF SendWritten, TypeOK
<1>6. CASE Requeue
  BY <1>6 DEF Requeue
<1>7. CASE WriterTakes \/ WriterResult \/ WriterFails \/ WriterStops
  BY <1>7 DEF WriterTakes, WriterResult, WriterFails, WriterStops
<1>8. CASE WriteFrame
  BY <1>8 DEF WriteFrame
<1>9. CASE Connect
  BY <1>9 DEF Connect
<1>10. CASE SessionFails \/ SessionReturns \/ Teardown
  BY <1>10 DEF SessionFails, SessionReturns, Teardown
<1> QED BY <1>1, <1>2, <1>3, <1>4, <1>5, <1>6, <1>7, <1>8, <1>9, <1>10 DEF Next, Flush

(* The counts move between the queue, the flush and the socket, and nothing *)
(* but trimLocked adds to their sum.                                        *)
LEMMA NextAccounting == AccountingInv /\ [Next]_vars => DropAccounting'
<1> SUFFICES ASSUME AccountingInv, [Next]_vars PROVE DropAccounting'
  OBVIOUS
<1> USE DEF AccountingInv, DropAccounting, watcherVars, queueVars, flushVars,
        writerVars, sessionVars
<1>0. /\ dropped \in Nat /\ taken \in Nat /\ trimmed \in Nat
      /\ reported \in Nat /\ confirmed \in Nat /\ frame.dropped \in Nat
  BY DEF TypeOK
<1>1. CASE AddEvent \/ Signal \/ PumpReceive \/ DrainEvents \/ UNCHANGED vars
  BY <1>1 DEF AddEvent, Signal, PumpReceive, DrainEvents, vars
<1>2. CASE Push
  <2> DEFINE n == Over(items \o drained)
  <2>1. n \in Nat
    <3>1. items \o drained \in Seq(1 .. produced)
      BY ConcatProperties DEF TypeOK, EventSeq
    <3> QED BY ONLY <3>1, TrimKeepsSuffix
  <2> HIDE DEF n
  <2>2. /\ trimmed' = trimmed + n /\ dropped' = dropped + n
        /\ UNCHANGED <<taken, confirmed, reported, flush, writer, result>>
    BY <1>2 DEF Push, trimLocked, n
  <2> QED BY <1>0, <2>1, <2>2
<1>3. CASE FlushStart \/ PopBatch
  BY <1>3 DEF FlushStart, PopBatch
<1>4. CASE TakeDropped
  BY <1>0, <1>4 DEF TakeDropped, Handshake
<1>5. CASE FlushEnd
  BY <1>0, <1>5 DEF FlushEnd, Kept
<1>6. CASE SendQueued
  <2>1. writer = "run"
    BY <1>6 DEF SendQueued, Handshake
  <2> QED BY <1>0, <1>6, <2>1 DEF SendQueued
<1>7. CASE SendRefused \/ SendTimeout \/ SendFailed
  BY <1>7 DEF SendRefused, SendTimeout, SendFailed
<1>8. CASE SendWritten
  BY <1>0, <1>8 DEF SendWritten
<1>9. CASE Requeue
  <2>1. Over(Merged) \in Nat
    <3>1. Merged \in Seq(1 .. produced)
      BY ConcatProperties DEF Merged, TypeOK, EventSeq
    <3> QED BY ONLY <3>1, TrimKeepsSuffix
  <2>2. /\ trimmed' = trimmed + Over(Merged) /\ dropped' = dropped + taken + Over(Merged)
        /\ taken' = 0 /\ flush' = "idle"
        /\ UNCHANGED <<confirmed, reported>>
    BY <1>9 DEF Requeue, trimLocked, Kept
  <2> QED BY <1>0, <2>1, <2>2
<1>10. CASE WriteFrame
  <2>1. /\ writer = "write" /\ writer' = "result" /\ reported' = reported + frame.dropped
        /\ UNCHANGED <<trimmed, dropped, taken, confirmed, flush, result>>
    BY <1>10 DEF WriteFrame
  <2>2. flush = "wait" => frame.dropped = taken
    BY DEF Handshake
  <2> QED BY <1>0, <2>1, <2>2
<1>11. CASE WriterTakes \/ WriterResult \/ WriterFails \/ WriterStops
  BY <1>11 DEF WriterTakes, WriterResult, WriterFails, WriterStops
<1>12. CASE Connect
  BY <1>12 DEF Connect, Handshake
<1>13. CASE SessionFails \/ SessionReturns \/ Teardown
  BY <1>13 DEF SessionFails, SessionReturns, Teardown
<1> QED BY <1>1, <1>2, <1>3, <1>4, <1>5, <1>6, <1>7, <1>8, <1>9, <1>10, <1>11, <1>12, <1>13
        DEF Next, Flush

(* Every drop trimLocked makes is counted once and its count is in one      *)
(* place, and the server is never told too little (flushEventQueue,         *)
(* Requeue, TakeDropped).                                                   *)
THEOREM DropsAccounted == Spec => []DropAccounting
<1>1. AccountingInv /\ [Next]_vars => AccountingInv'
  BY NextType, NextHandshake, NextAccounting DEF AccountingInv
<1>2. AccountingInv => DropAccounting
  BY DEF AccountingInv
<1> QED BY <1>1, <1>2, InitAccounting, PTL DEF Spec

(* Flush, writer and session never disagree on who holds the events frame.  *)
THEOREM HandshakeHolds == Spec => []Handshake
<1>1. TypeOK /\ Handshake /\ [Next]_vars => (TypeOK /\ Handshake)'
  BY NextType, NextHandshake
<1>2. Init => TypeOK /\ Handshake
  BY InitAccounting DEF AccountingInv
<1> QED BY <1>1, <1>2, PTL DEF Spec

(***************************************************************************)
(* What the queue's operations do to the set of events a sequence holds.   *)
(***************************************************************************)
LEMMA ToSetIsRange ==
    ASSUME NEW S, NEW s \in Seq(S)
    PROVE  /\ ToSet(s) = { s[i] : i \in 1 .. Len(s) } /\ ToSet(s) \subseteq S
           /\ \A i \in 1 .. Len(s) : s[i] \in ToSet(s)
<1>1. DOMAIN s = 1 .. Len(s) /\ \A i \in 1 .. Len(s) : s[i] \in S
  BY LenProperties, ElementOfSeq
<1> QED BY <1>1 DEF ToSet

LEMMA ToSetEmpty == ToSet(<<>>) = {}
  BY DEF ToSet

LEMMA ToSetConcat ==
    ASSUME NEW S, NEW s \in Seq(S), NEW t \in Seq(S)
    PROVE  ToSet(s \o t) = ToSet(s) \union ToSet(t)
<1>1. /\ s \o t \in Seq(S) /\ Len(s) \in Nat /\ Len(t) \in Nat
      /\ Len(s \o t) = Len(s) + Len(t)
      /\ \A i \in 1 .. Len(s) + Len(t) :
            (s \o t)[i] = IF i <= Len(s) THEN s[i] ELSE t[i - Len(s)]
  BY ConcatProperties, LenProperties
<1>2. ASSUME NEW x \in ToSet(s \o t) PROVE x \in ToSet(s) \union ToSet(t)
  <2>0. ToSet(s \o t) = { (s \o t)[i] : i \in 1 .. Len(s) + Len(t) }
    BY <1>1, ToSetIsRange
  <2>1. PICK i \in 1 .. Len(s) + Len(t) : x = (s \o t)[i]
    BY <1>2, <2>0
  <2>2. CASE i <= Len(s)
    <3>1. i \in 1 .. Len(s) /\ x = s[i]
      BY <1>1, <2>1, <2>2
    <3> QED BY <3>1, ToSetIsRange
  <2>3. CASE ~ (i <= Len(s))
    <3>1. i - Len(s) \in 1 .. Len(t) /\ x = t[i - Len(s)]
      BY <1>1, <2>1, <2>3
    <3> QED BY <3>1, ToSetIsRange
  <2> QED BY <2>2, <2>3
<1>3. ASSUME NEW x \in ToSet(s) PROVE x \in ToSet(s \o t)
  <2>1. PICK i \in 1 .. Len(s) : x = s[i]
    BY <1>3, ToSetIsRange
  <2>2. i \in 1 .. Len(s \o t) /\ x = (s \o t)[i]
    BY <1>1, <2>1
  <2> QED BY <1>1, <2>2, ToSetIsRange
<1>4. ASSUME NEW x \in ToSet(t) PROVE x \in ToSet(s \o t)
  <2>1. PICK i \in 1 .. Len(t) : x = t[i]
    BY <1>4, ToSetIsRange
  <2>2. Len(s) + i \in 1 .. Len(s \o t) /\ x = (s \o t)[Len(s) + i]
    BY <1>1, <2>1
  <2> QED BY <1>1, <2>2, ToSetIsRange
<1> QED BY <1>2, <1>3, <1>4

LEMMA ToSetAppend ==
    ASSUME NEW S, NEW s \in Seq(S), NEW x \in S
    PROVE  ToSet(Append(s, x)) = ToSet(s) \union {x}
<1>1. /\ Append(s, x) \in Seq(S) /\ Len(s) \in Nat /\ Len(Append(s, x)) = Len(s) + 1
      /\ \A i \in 1 .. Len(s) : Append(s, x)[i] = s[i]
      /\ Append(s, x)[Len(s) + 1] = x
  BY AppendProperties, LenProperties
<1>2. /\ ToSet(s) = { s[i] : i \in 1 .. Len(s) }
      /\ ToSet(Append(s, x)) = { Append(s, x)[i] : i \in 1 .. Len(s) + 1 }
  BY <1>1, ToSetIsRange
<1>3. 1 .. Len(s) + 1 = (1 .. Len(s)) \union {Len(s) + 1}
  BY <1>1
<1> QED BY <1>1, <1>2, <1>3

(* A sequence cut after its first n elements.                               *)
LEMMA CutProperties ==
    ASSUME NEW S, NEW s \in Seq(S), NEW n \in 0 .. Len(s)
    PROVE  /\ SubSeq(s, 1, n) \in Seq(S) /\ Len(SubSeq(s, 1, n)) = n
           /\ \A i \in 1 .. n : SubSeq(s, 1, n)[i] = s[i]
           /\ SubSeq(s, n + 1, Len(s)) \in Seq(S)
           /\ Len(SubSeq(s, n + 1, Len(s))) = Len(s) - n
           /\ \A i \in 1 .. Len(s) - n : SubSeq(s, n + 1, Len(s))[i] = s[n + i]
<1>1. Len(s) \in Nat /\ n \in Int /\ n + 1 \in Int /\ \A i \in 1 .. Len(s) : s[i] \in S
  BY LenProperties, ElementOfSeq
<1>2. /\ SubSeq(s, 1, n) \in Seq(S)
      /\ Len(SubSeq(s, 1, n)) = IF 1 <= n THEN n - 1 + 1 ELSE 0
      /\ \A i \in 1 .. n - 1 + 1 : SubSeq(s, 1, n)[i] = s[1 + i - 1]
  <2>1. \A i \in 1 .. n : s[i] \in S
    BY <1>1
  <2> QED BY <1>1, <2>1, SubSeqProperties
<1>3. /\ SubSeq(s, n + 1, Len(s)) \in Seq(S)
      /\ Len(SubSeq(s, n + 1, Len(s))) = IF n + 1 <= Len(s) THEN Len(s) - (n + 1) + 1 ELSE 0
      /\ \A i \in 1 .. Len(s) - (n + 1) + 1 : SubSeq(s, n + 1, Len(s))[i] = s[n + 1 + i - 1]
  <2>1. \A i \in n + 1 .. Len(s) : s[i] \in S
    BY <1>1
  <2> QED BY <1>1, <2>1, SubSeqProperties
<1> QED BY <1>1, <1>2, <1>3

LEMMA ToSetCut ==
    ASSUME NEW S, NEW s \in Seq(S), NEW n \in 0 .. Len(s)
    PROVE  /\ ToSet(SubSeq(s, 1, n)) = { s[i] : i \in 1 .. n }
           /\ ToSet(s) = { s[i] : i \in 1 .. n } \union ToSet(SubSeq(s, n + 1, Len(s)))
<1> DEFINE t == SubSeq(s, n + 1, Len(s))
<1>1. Len(s) \in Nat
  BY LenProperties
<1>2. ToSet(SubSeq(s, 1, n)) = { s[i] : i \in 1 .. n }
  <2>1. /\ SubSeq(s, 1, n) \in Seq(S) /\ Len(SubSeq(s, 1, n)) = n
        /\ \A i \in 1 .. n : SubSeq(s, 1, n)[i] = s[i]
    BY CutProperties
  <2>2. ToSet(SubSeq(s, 1, n)) = { SubSeq(s, 1, n)[i] : i \in 1 .. n }
    BY <2>1, ToSetIsRange
  <2> QED BY <2>1, <2>2
<1>3. t \in Seq(S) /\ Len(t) = Len(s) - n /\ \A i \in 1 .. Len(s) - n : t[i] = s[n + i]
  BY CutProperties
<1> HIDE DEF t
<1>4. ASSUME NEW x \in ToSet(s) PROVE x \in { s[i] : i \in 1 .. n } \union ToSet(t)
  <2>1. PICK i \in 1 .. Len(s) : x = s[i]
    BY ToSetIsRange
  <2>2. CASE ~ (i <= n)
    <3>1. i - n \in 1 .. Len(t) /\ x = t[i - n]
      BY <1>1, <1>3, <2>1, <2>2
    <3> QED BY <1>3, <3>1, ToSetIsRange
  <2> QED BY <2>1, <2>2
<1>5. ASSUME NEW x \in ToSet(t) PROVE x \in ToSet(s)
  <2>1. PICK i \in 1 .. Len(t) : x = t[i]
    BY <1>3, ToSetIsRange
  <2>2. n + i \in 1 .. Len(s) /\ x = s[n + i]
    BY <1>1, <1>3, <2>1
  <2> QED BY <2>2, ToSetIsRange
<1>6. ASSUME NEW x \in { s[i] : i \in 1 .. n } PROVE x \in ToSet(s)
  <2>1. \A i \in 1 .. n : i \in 1 .. Len(s)
    BY <1>1
  <2> QED BY <2>1, ToSetIsRange
<1>7. ToSet(s) = { s[i] : i \in 1 .. n } \union ToSet(t)
  BY <1>4, <1>5, <1>6
<1> QED BY <1>2, <1>7 DEF t

LEMMA TrimMovesToLost ==
    ASSUME NEW S, NEW s \in Seq(S), trimLocked(s)
    PROVE  lost' \union ToSet(items') = lost \union ToSet(s)
<1>1. Over(s) \in 0 .. Len(s)
  BY TrimKeepsSuffix
<1>2. ToSet(s) = { s[i] : i \in 1 .. Over(s) }
                   \union ToSet(SubSeq(s, Over(s) + 1, Len(s)))
  BY <1>1, ToSetCut
<1> QED BY <1>2 DEF trimLocked

LEMMA PopMovesToBatch ==
    ASSUME NEW S, items \in Seq(S), PopBatch
    PROVE  ToSet(batch') \union ToSet(items') = ToSet(items)
<1>1. BatchLen \in 0 .. Len(items)
  BY PopSplits
<1>2. /\ ToSet(SubSeq(items, 1, BatchLen)) = { items[i] : i \in 1 .. BatchLen }
      /\ ToSet(items) = { items[i] : i \in 1 .. BatchLen }
                          \union ToSet(SubSeq(items, BatchLen + 1, Len(items)))
  BY <1>1, ToSetCut
<1> QED BY <1>2 DEF PopBatch, AfterPop

(* What a written frame adds to the socket's history.                       *)
LEMMA WriteAppends ==
    ASSUME TypeOK, WriteFrame
    PROVE  /\ Len(frame.events) \in Nat /\ Len(written) \in Nat
           /\ Len(written') = Len(written) + Len(frame.events)
           /\ \A i \in 1 .. Len(written) : written'[i] = written[i]
           /\ \A i \in 1 .. Len(frame.events) :
                 written'[Len(written) + i] =
                    [event |-> frame.events[i], session |-> sessionNo]
           /\ WrittenEvents' = WrittenEvents \union ToSet(frame.events)
<1> DEFINE T == [event : 1 .. produced, session : Nat]
           w == [i \in 1 .. Len(frame.events) |->
                    [event |-> frame.events[i], session |-> sessionNo]]
<1>1. /\ frame.events \in Seq(1 .. produced) /\ Len(frame.events) \in Nat
      /\ \A i \in 1 .. Len(frame.events) : frame.events[i] \in 1 .. produced
      /\ written \in Seq(T) /\ Len(written) \in Nat /\ sessionNo \in Nat
  BY LenProperties, ElementOfSeq DEF TypeOK, EventSeq
<1>2. w \in Seq(T) /\ Len(w) = Len(frame.events)
  <2>1. w \in Seq(T)
    BY <1>1, IsASeq
  <2>2. DOMAIN w = 1 .. Len(w) /\ Len(w) \in Nat
    BY <2>1, LenProperties
  <2> QED BY <1>1, <2>1, <2>2
<1>3. \A i \in 1 .. Len(frame.events) :
         w[i] = [event |-> frame.events[i], session |-> sessionNo]
  OBVIOUS
<1>4. written' = written \o w
  BY DEF WriteFrame
<1> HIDE DEF w
<1>5. /\ Len(written \o w) = Len(written) + Len(w)
      /\ \A i \in 1 .. Len(written) + Len(w) :
            (written \o w)[i] = IF i <= Len(written) THEN written[i] ELSE w[i - Len(written)]
  BY <1>1, <1>2, ConcatProperties
<1>6. Len(written') = Len(written) + Len(frame.events)
  BY <1>2, <1>4, <1>5
<1>7. \A i \in 1 .. Len(written) : written'[i] = written[i]
  BY <1>1, <1>2, <1>4, <1>5
<1>8. ASSUME NEW i \in 1 .. Len(frame.events)
      PROVE  written'[Len(written) + i] = [event |-> frame.events[i], session |-> sessionNo]
  <2>1. /\ Len(written) + i \in 1 .. Len(written) + Len(w) /\ ~ (Len(written) + i <= Len(written))
        /\ Len(written) + i - Len(written) = i
    BY <1>1, <1>2
  <2> QED BY <1>3, <1>4, <1>5, <2>1
<1>9. WrittenEvents' = WrittenEvents \union ToSet(frame.events)
  <2>1. ToSet(frame.events) = { frame.events[i] : i \in 1 .. Len(frame.events) }
    BY <1>1, ToSetIsRange
  <2>2. WrittenEvents' = { written'[i].event : i \in 1 .. Len(written) + Len(frame.events) }
    BY <1>6 DEF WrittenEvents
  <2>3. ASSUME NEW x \in WrittenEvents' PROVE x \in WrittenEvents \union ToSet(frame.events)
    <3>1. PICK i \in 1 .. Len(written) + Len(frame.events) : x = written'[i].event
      BY <2>2, <2>3
    <3>2. CASE i <= Len(written)
      <4>1. i \in 1 .. Len(written)
        BY <1>1, <3>2
      <4> QED BY <1>7, <3>1, <4>1 DEF WrittenEvents
    <3>3. CASE ~ (i <= Len(written))
      <4>1. i - Len(written) \in 1 .. Len(frame.events) /\ i = Len(written) + (i - Len(written))
        BY <1>1, <3>3
      <4>2. PICK k \in 1 .. Len(frame.events) : i = Len(written) + k
        BY <4>1
      <4>3. written'[Len(written) + k] = [event |-> frame.events[k], session |-> sessionNo]
        BY <1>8
      <4>4. written'[i].event = frame.events[k]
        BY <4>2, <4>3
      <4> QED BY <2>1, <3>1, <4>4
    <3> QED BY <3>2, <3>3
  <2>4. ASSUME NEW x \in WrittenEvents PROVE x \in WrittenEvents'
    <3>1. PICK i \in 1 .. Len(written) : x = written[i].event
      BY <2>4 DEF WrittenEvents
    <3>2. i \in 1 .. Len(written) + Len(frame.events)
      BY <1>1
    <3> QED BY <1>7, <2>2, <3>1, <3>2
  <2>5. ASSUME NEW x \in ToSet(frame.events) PROVE x \in WrittenEvents'
    <3>1. PICK i \in 1 .. Len(frame.events) : x = frame.events[i]
      BY <2>1, <2>5
    <3>2. Len(written) + i \in 1 .. Len(written) + Len(frame.events)
      BY <1>1
    <3>3. written'[Len(written) + i] = [event |-> frame.events[i], session |-> sessionNo]
      BY <1>8
    <3>4. written'[Len(written) + i].event = frame.events[i]
      BY <3>3
    <3> QED BY <2>2, <3>1, <3>2, <3>4
  <2> QED BY <2>3, <2>4, <2>5
<1> QED BY <1>1, <1>6, <1>7, <1>8, <1>9

(***************************************************************************)
(* No event is lost unseen.  The strengthening: between two rounds of the  *)
(* pump nothing is left drained and unpushed, and a flush that will be     *)
(* told "written" holds a batch that is on the socket.                     *)
(***************************************************************************)
PumpInv == pump # "push" => drained = <<>>

HandedOver ==
    flush = "wait" /\ (writer = "result" \/ result = "ok")
        => ToSet(batch) \subseteq WrittenEvents

DeliveryInv == TypeOK /\ Handshake /\ PumpInv /\ HandedOver /\ NoSilentLoss

LEMMA InitDelivery == Init => DeliveryInv
<1> SUFFICES ASSUME Init PROVE DeliveryInv
  OBVIOUS
<1>1. TypeOK /\ Handshake
  BY InitAccounting DEF AccountingInv
<1>2. PumpInv /\ HandedOver
  BY DEF Init, PumpInv, HandedOver
<1>3. NoSilentLoss
  BY DEF Init, NoSilentLoss
<1> QED BY <1>1, <1>2, <1>3 DEF DeliveryInv

LEMMA NextPump == PumpInv /\ [Next]_vars => PumpInv'
<1> SUFFICES ASSUME PumpInv, [Next]_vars PROVE PumpInv'
  OBVIOUS
<1> USE DEF PumpInv, watcherVars, queueVars, flushVars, writerVars, sessionVars
<1>1. CASE PumpReceive \/ DrainEvents \/ Push
  BY <1>1 DEF PumpReceive, DrainEvents, Push
<1>2. CASE UNCHANGED <<pump, drained>>
  BY <1>2
<1>3. CASE AddEvent \/ Signal \/ Flush \/ SendTimeout
  BY <1>2, <1>3 DEF AddEvent, Signal, Flush, FlushStart, TakeDropped, PopBatch, FlushEnd,
     SendQueued, SendRefused, SendWritten, SendFailed, Requeue, SendTimeout
<1>4. CASE WriterTakes \/ WriteFrame \/ WriterResult \/ WriterFails \/ WriterStops
  BY <1>2, <1>4 DEF WriterTakes, WriteFrame, WriterResult, WriterFails, WriterStops
<1>5. CASE Connect \/ SessionFails \/ SessionReturns \/ Teardown \/ UNCHANGED vars
  BY <1>2, <1>5 DEF Connect, SessionFails, SessionReturns, Teardown, vars
<1> QED BY <1>1, <1>3, <1>4, <1>5 DEF Next

LEMMA NextHandedOver == TypeOK /\ Handshake /\ HandedOver /\ [Next]_vars => HandedOver'
<1> SUFFICES ASSUME TypeOK, Handshake, HandedOver, [Next]_vars PROVE HandedOver'
  OBVIOUS
<1> USE DEF watcherVars, queueVars, flushVars, writerVars, sessionVars
<1>1. CASE UNCHANGED <<flush, batch, writer, result, written>>
  BY <1>1 DEF HandedOver, WrittenEvents
<1>2. CASE flush' # "wait"
  BY <1>2 DEF HandedOver
<1>3. CASE AddEvent \/ Signal \/ PumpReceive \/ DrainEvents \/ Push \/ UNCHANGED vars
  BY <1>1, <1>3 DEF AddEvent, Signal, PumpReceive, DrainEvents, Push, vars
<1>4. CASE FlushStart \/ TakeDropped \/ PopBatch \/ FlushEnd \/ SendRefused
           \/ SendTimeout \/ SendWritten \/ SendFailed \/ Requeue
  BY <1>2, <1>4 DEF FlushStart, TakeDropped, PopBatch, FlushEnd, SendRefused,
     SendTimeout, SendWritten, SendFailed, Requeue
<1>5. CASE SendQueued
  BY <1>5 DEF SendQueued, Handshake, HandedOver
<1>6. CASE WriteFrame
  <2>1. WrittenEvents' = WrittenEvents \union ToSet(frame.events)
    BY <1>6, WriteAppends
  <2>2. flush = "wait" => frame.events = batch
    BY DEF Handshake
  <2>3. flush' = flush /\ batch' = batch
    BY <1>6 DEF WriteFrame
  <2> QED BY <2>1, <2>2, <2>3 DEF HandedOver
<1>7. CASE WriterTakes \/ WriterResult \/ WriterFails \/ WriterStops
  BY <1>7 DEF WriterTakes, WriterResult, WriterFails, WriterStops, HandedOver,
     WrittenEvents
<1>8. CASE Connect
  BY <1>2, <1>8 DEF Connect, Handshake
<1>9. CASE SessionFails \/ SessionReturns \/ Teardown
  BY <1>1, <1>9 DEF SessionFails, SessionReturns, Teardown
<1> QED BY <1>3, <1>4, <1>5, <1>6, <1>7, <1>8, <1>9 DEF Next, Flush

LEMMA NextNoSilentLoss == DeliveryInv /\ [Next]_vars => NoSilentLoss'
<1> SUFFICES ASSUME DeliveryInv, [Next]_vars PROVE NoSilentLoss'
  OBVIOUS
<1> DEFINE Way == ToSet(buffer) \union ToSet(drained) \union ToSet(items)
                    \union ToSet(batch) \union lost \union WrittenEvents
<1> USE DEF watcherVars, queueVars, flushVars, writerVars, sessionVars
<1>0. /\ buffer \in Seq(1 .. produced) /\ drained \in Seq(1 .. produced)
      /\ items \in Seq(1 .. produced) /\ batch \in Seq(1 .. produced) /\ produced \in Nat
  BY DEF DeliveryInv, TypeOK, EventSeq
<1>1. ASSUME produced' = produced, Way \subseteq Way' PROVE NoSilentLoss'
  BY <1>1 DEF DeliveryInv, NoSilentLoss
<1>2. CASE UNCHANGED <<produced, buffer, drained, items, batch, lost, written>>
  BY <1>1, <1>2 DEF WrittenEvents
<1>3. CASE AddEvent
  <2>1. /\ produced' = produced + 1 /\ buffer' = Append(buffer, produced + 1)
        /\ UNCHANGED <<drained, items, batch, lost, written>>
    BY <1>3 DEF AddEvent
  <2>2. ToSet(buffer') = ToSet(buffer) \union {produced + 1}
    <3>1. /\ buffer \in Seq(1 .. produced + 1) /\ produced + 1 \in 1 .. produced + 1
      <4>1. 1 .. produced \subseteq 1 .. produced + 1 /\ produced + 1 \in 1 .. produced + 1
        BY <1>0
      <4> QED BY <1>0, <4>1, SeqMonotonic
    <3> QED BY <2>1, <3>1, ToSetAppend
  <2>3. 1 .. produced' = (1 .. produced) \union {produced + 1}
    BY <1>0, <2>1
  <2>4. WrittenEvents' = WrittenEvents
    BY <2>1 DEF WrittenEvents
  <2> QED BY <2>1, <2>2, <2>3, <2>4 DEF DeliveryInv, NoSilentLoss
<1>4. CASE DrainEvents
  <2>1. /\ drained = <<>> /\ drained' = buffer
        /\ UNCHANGED <<produced, items, batch, lost, written>>
    BY <1>4 DEF DrainEvents, DeliveryInv, PumpInv
  <2>2. ToSet(drained) = {} /\ WrittenEvents' = WrittenEvents
    BY <2>1, ToSetEmpty DEF WrittenEvents
  <2> QED BY <1>1, <2>1, <2>2
<1>5. CASE Push
  <2>1. /\ trimLocked(items \o drained)
        /\ UNCHANGED <<produced, buffer, batch, written>>
    BY <1>5 DEF Push
  <2>2. lost' \union ToSet(items') = lost \union ToSet(items \o drained)
    BY <1>0, <2>1, ConcatProperties, TrimMovesToLost
  <2>3. ToSet(items \o drained) = ToSet(items) \union ToSet(drained)
    BY <1>0, ToSetConcat
  <2>4. WrittenEvents' = WrittenEvents
    BY <2>1 DEF WrittenEvents
  <2> QED BY <1>1, <2>1, <2>2, <2>3, <2>4
<1>6. CASE PopBatch
  <2>1. UNCHANGED <<produced, buffer, drained, lost, written>> /\ batch = <<>>
    BY <1>6 DEF PopBatch, DeliveryInv, Handshake
  <2>2. ToSet(batch') \union ToSet(items') = ToSet(items) /\ ToSet(batch) = {}
    BY <1>0, <1>6, <2>1, PopMovesToBatch, ToSetEmpty
  <2>3. WrittenEvents' = WrittenEvents
    BY <2>1 DEF WrittenEvents
  <2> QED BY <1>1, <2>1, <2>2, <2>3
<1>7. CASE SendWritten
  <2>1. /\ ToSet(batch) \subseteq WrittenEvents
        /\ UNCHANGED <<produced, buffer, drained, items, lost, written>>
    BY <1>7 DEF SendWritten, DeliveryInv, HandedOver
  <2>2. WrittenEvents' = WrittenEvents
    BY <2>1 DEF WrittenEvents
  <2> QED BY <1>1, <2>1, <2>2
<1>8. CASE Requeue
  <2>1. trimLocked(Merged) /\ UNCHANGED <<produced, buffer, drained, written>>
    BY <1>8 DEF Requeue
  <2>2. Merged \in Seq(1 .. produced) /\ ToSet(Merged) = ToSet(batch) \union ToSet(items)
    BY <1>0, ConcatProperties, ToSetConcat DEF Merged
  <2>3. lost' \union ToSet(items') = lost \union ToSet(Merged)
    BY <2>1, <2>2, TrimMovesToLost
  <2>4. WrittenEvents' = WrittenEvents
    BY <2>1 DEF WrittenEvents
  <2> QED BY <1>1, <2>1, <2>2, <2>3, <2>4
<1>9. CASE WriteFrame
  <2>1. UNCHANGED <<produced, buffer, drained, items, batch, lost>>
    BY <1>9 DEF WriteFrame
  <2>2. WrittenEvents \subseteq WrittenEvents'
    BY <1>9, WriteAppends DEF DeliveryInv
  <2> QED BY <1>1, <2>1, <2>2
<1>10. CASE Signal \/ PumpReceive \/ FlushStart \/ TakeDropped \/ FlushEnd
            \/ SendQueued \/ SendRefused \/ SendTimeout \/ SendFailed
  BY <1>2, <1>10 DEF Signal, PumpReceive, FlushStart, TakeDropped, FlushEnd,
     SendQueued, SendRefused, SendTimeout, SendFailed
<1>11. CASE WriterTakes \/ WriterResult \/ WriterFails \/ WriterStops
  BY <1>2, <1>11 DEF WriterTakes, WriterResult, WriterFails, WriterStops
<1>12. CASE Connect \/ SessionFails \/ SessionReturns \/ Teardown \/ UNCHANGED vars
  BY <1>2, <1>12 DEF Connect, SessionFails, SessionReturns, Teardown, vars
<1> QED BY <1>3, <1>4, <1>5, <1>6, <1>7, <1>8, <1>9, <1>10, <1>11, <1>12 DEF Next, Flush

(* No event disappears unseen: it is on its way, was written, or was        *)
(* dropped by trimLocked and counted (addEvent, pumpEvents,                 *)
(* flushEventQueue, writeLoop).                                             *)
THEOREM NothingLostSilently == Spec => []NoSilentLoss
<1>1. DeliveryInv /\ [Next]_vars => DeliveryInv'
  BY NextType, NextHandshake, NextPump, NextHandedOver, NextNoSilentLoss DEF DeliveryInv
<1>2. DeliveryInv => NoSilentLoss
  BY DEF DeliveryInv
<1> QED BY <1>1, <1>2, InitDelivery, PTL DEF Spec

(***************************************************************************)
(* Order.  Arrival numbers grow along a sequence (Sorted) and from one     *)
(* place on the way to the next (Before).                                  *)
(***************************************************************************)
Sorted(s) == \A i, j \in 1 .. Len(s) : i < j => s[i] < s[j]
Before(S, T) == \A x \in S, y \in T : x < y

LEMMA SortedConcat ==
    ASSUME NEW S, NEW s \in Seq(S), NEW t \in Seq(S), Sorted(s), Sorted(t),
           Before(ToSet(s), ToSet(t))
    PROVE  s \o t \in Seq(S) /\ Sorted(s \o t)
<1>1. /\ s \o t \in Seq(S) /\ Len(s) \in Nat /\ Len(t) \in Nat
      /\ Len(s \o t) = Len(s) + Len(t)
      /\ \A i \in 1 .. Len(s) + Len(t) :
            (s \o t)[i] = IF i <= Len(s) THEN s[i] ELSE t[i - Len(s)]
  BY ConcatProperties, LenProperties
<1>2. SUFFICES ASSUME NEW i \in 1 .. Len(s) + Len(t), NEW j \in 1 .. Len(s) + Len(t), i < j
               PROVE  (s \o t)[i] < (s \o t)[j]
  BY <1>1 DEF Sorted
<1>3. CASE j <= Len(s)
  <2>1. i \in 1 .. Len(s) /\ j \in 1 .. Len(s) /\ i <= Len(s)
    BY <1>1, <1>2, <1>3
  <2> QED BY <1>1, <1>2, <1>3, <2>1 DEF Sorted
<1>4. CASE ~ (j <= Len(s)) /\ i <= Len(s)
  <2>1. i \in 1 .. Len(s) /\ j - Len(s) \in 1 .. Len(t)
    BY <1>1, <1>4
  <2>2. s[i] \in ToSet(s) /\ t[j - Len(s)] \in ToSet(t)
    BY <2>1, ToSetIsRange
  <2> QED BY <1>1, <1>4, <2>2 DEF Before
<1>5. CASE ~ (j <= Len(s)) /\ ~ (i <= Len(s))
  <2>1. i - Len(s) \in 1 .. Len(t) /\ j - Len(s) \in 1 .. Len(t) /\ i - Len(s) < j - Len(s)
    BY <1>1, <1>2, <1>5
  <2>2. t[i - Len(s)] < t[j - Len(s)]
    BY <2>1 DEF Sorted
  <2> QED BY <1>1, <1>5, <2>2
<1> QED BY <1>3, <1>4, <1>5

LEMMA SortedCut ==
    ASSUME NEW S, NEW s \in Seq(S), NEW n \in 0 .. Len(s), Sorted(s)
    PROVE  /\ Sorted(SubSeq(s, 1, n)) /\ Sorted(SubSeq(s, n + 1, Len(s)))
           /\ Before({ s[i] : i \in 1 .. n }, ToSet(SubSeq(s, n + 1, Len(s))))
<1> DEFINE a == SubSeq(s, 1, n)
           b == SubSeq(s, n + 1, Len(s))
<1>1. /\ Len(s) \in Nat
      /\ a \in Seq(S) /\ Len(a) = n /\ \A i \in 1 .. n : a[i] = s[i]
      /\ b \in Seq(S) /\ Len(b) = Len(s) - n /\ \A i \in 1 .. Len(s) - n : b[i] = s[n + i]
  BY LenProperties, CutProperties
<1> HIDE DEF a, b
<1>2. Sorted(a)
  <2>1. SUFFICES ASSUME NEW i \in 1 .. n, NEW j \in 1 .. n, i < j PROVE s[i] < s[j]
    BY <1>1 DEF Sorted
  <2>2. i \in 1 .. Len(s) /\ j \in 1 .. Len(s)
    BY <1>1
  <2> QED BY <2>1, <2>2 DEF Sorted
<1>3. Sorted(b)
  <2>1. SUFFICES ASSUME NEW i \in 1 .. Len(s) - n, NEW j \in 1 .. Len(s) - n, i < j
                 PROVE  s[n + i] < s[n + j]
    BY <1>1 DEF Sorted
  <2>2. n + i \in 1 .. Len(s) /\ n + j \in 1 .. Len(s) /\ n + i < n + j
    BY <1>1, <2>1
  <2> QED BY <2>2 DEF Sorted
<1>4. Before({ s[i] : i \in 1 .. n }, ToSet(b))
  <2>1. SUFFICES ASSUME NEW i \in 1 .. n, NEW y \in ToSet(b) PROVE s[i] < y
    BY DEF Before
  <2>2. ToSet(b) = { b[k] : k \in 1 .. Len(s) - n }
    BY <1>1, ToSetIsRange
  <2>3. PICK k \in 1 .. Len(s) - n : y = b[k]
    BY <2>2
  <2>4. i \in 1 .. Len(s) /\ n + k \in 1 .. Len(s) /\ i < n + k /\ y = s[n + k]
    BY <1>1, <2>3
  <2> QED BY <2>4 DEF Sorted
<1> QED BY <1>2, <1>3, <1>4 DEF a, b

LEMMA SortedAppend ==
    ASSUME NEW n \in Nat, NEW s \in Seq(1 .. n), Sorted(s)
    PROVE  Sorted(Append(s, n + 1))
<1>1. /\ Len(s) \in Nat /\ Len(Append(s, n + 1)) = Len(s) + 1
      /\ \A i \in 1 .. Len(s) : Append(s, n + 1)[i] = s[i] /\ s[i] \in 1 .. n
      /\ Append(s, n + 1)[Len(s) + 1] = n + 1
  <2>1. s \in Seq(1 .. n + 1) /\ n + 1 \in 1 .. n + 1
    <3>1. 1 .. n \subseteq 1 .. n + 1 /\ n + 1 \in 1 .. n + 1
      OBVIOUS
    <3> QED BY <3>1, SeqMonotonic
  <2> QED BY <2>1, AppendProperties, LenProperties, ElementOfSeq
<1>2. SUFFICES ASSUME NEW i \in 1 .. Len(s) + 1, NEW j \in 1 .. Len(s) + 1, i < j
               PROVE  Append(s, n + 1)[i] < Append(s, n + 1)[j]
  BY <1>1 DEF Sorted
<1>3. i \in 1 .. Len(s)
  BY <1>1, <1>2
<1>4. CASE j = Len(s) + 1
  <2>1. Append(s, n + 1)[i] \in 1 .. n /\ Append(s, n + 1)[j] = n + 1
    BY <1>1, <1>3, <1>4
  <2> QED BY <2>1
<1>5. CASE j # Len(s) + 1
  <2>1. j \in 1 .. Len(s)
    BY <1>1, <1>5
  <2> QED BY <1>1, <1>2, <1>3, <2>1 DEF Sorted
<1> QED BY <1>4, <1>5

(* Which steps move events between the places they wait in, and which ones  *)
(* touch the socket's history or the session number.                        *)
LEMMA QueueSteps ==
    ASSUME [Next]_vars
    PROVE  \/ AddEvent \/ DrainEvents \/ Push \/ PopBatch \/ SendWritten \/ Requeue
           \/ UNCHANGED <<produced, buffer, drained, items, batch, lost>>
<1> USE DEF watcherVars, queueVars, flushVars, writerVars, sessionVars
<1>1. CASE Signal \/ PumpReceive \/ FlushStart \/ TakeDropped \/ FlushEnd
           \/ SendQueued \/ SendRefused \/ SendTimeout \/ SendFailed
  BY <1>1 DEF Signal, PumpReceive, FlushStart, TakeDropped, FlushEnd,
     SendQueued, SendRefused, SendTimeout, SendFailed
<1>2. CASE WriterTakes \/ WriteFrame \/ WriterResult \/ WriterFails \/ WriterStops
  BY <1>2 DEF WriterTakes, WriteFrame, WriterResult, WriterFails, WriterStops
<1>3. CASE Connect \/ SessionFails \/ SessionReturns \/ Teardown \/ UNCHANGED vars
  BY <1>3 DEF Connect, SessionFails, SessionReturns, Teardown, vars
<1> QED BY <1>1, <1>2, <1>3 DEF Next, Flush

LEMMA SocketSteps ==
    ASSUME [Next]_vars
    PROVE  WriteFrame \/ Connect \/ UNCHANGED <<written, sessionNo>>
<1> USE DEF watcherVars, queueVars, flushVars, writerVars, sessionVars
<1>1. CASE AddEvent \/ Signal \/ PumpReceive \/ DrainEvents \/ Push \/ SendTimeout
           \/ UNCHANGED vars
  BY <1>1 DEF AddEvent, Signal, PumpReceive, DrainEvents, Push, SendTimeout, vars
<1>2. CASE Flush
  BY <1>2 DEF Flush, FlushStart, TakeDropped, PopBatch, FlushEnd,
     SendQueued, SendRefused, SendWritten, SendFailed, Requeue
<1>3. CASE WriterTakes \/ WriterResult \/ WriterFails \/ WriterStops
  BY <1>3 DEF WriterTakes, WriterResult, WriterFails, WriterStops
<1>4. CASE SessionFails \/ SessionReturns \/ Teardown
  BY <1>4 DEF SessionFails, SessionReturns, Teardown
<1> QED BY <1>1, <1>2, <1>3, <1>4 DEF Next

(* Behind the flush: items, then drained, then buffer.                      *)
Queued == ToSet(items) \union ToSet(drained) \union ToSet(buffer)
OnItsWay == ToSet(batch) \union Queued

OrderInv ==
    /\ Sorted(batch) /\ Sorted(items) /\ Sorted(drained) /\ Sorted(buffer)
    /\ Before(ToSet(batch), Queued)
    /\ Before(ToSet(items), ToSet(drained) \union ToSet(buffer))
    /\ Before(ToSet(drained), ToSet(buffer))

(* A drop is older than everything queued; it may be younger than the batch *)
(* in hand, but then the queue is full and the batch cannot come back.      *)
LostInv ==
    /\ Before(lost, Queued)
    /\ Before(lost, ToSet(batch)) \/ Len(items) = Capacity

QueueInv == TypeOK /\ Handshake /\ PumpInv /\ OrderInv /\ LostInv

LEMMA SortedEmpty == Sorted(<<>>)
  BY DEF Sorted

LEMMA AddEventSets ==
    ASSUME TypeOK, AddEvent
    PROVE  /\ produced \in Nat /\ produced' = produced + 1
           /\ ToSet(buffer') = ToSet(buffer) \union {produced + 1}
           /\ Queued' = Queued \union {produced + 1}
           /\ OnItsWay \subseteq 1 .. produced /\ OnItsWay' = OnItsWay \union {produced + 1}
           /\ UNCHANGED <<items, drained, batch, lost>>
<1>1. /\ buffer \in Seq(1 .. produced) /\ drained \in Seq(1 .. produced)
      /\ items \in Seq(1 .. produced) /\ batch \in Seq(1 .. produced) /\ produced \in Nat
  BY DEF TypeOK, EventSeq
<1>2. /\ produced' = produced + 1 /\ buffer' = Append(buffer, produced + 1)
      /\ UNCHANGED <<items, drained, batch, lost>>
  BY DEF AddEvent, queueVars, flushVars
<1>3. ToSet(buffer') = ToSet(buffer) \union {produced + 1}
  <2>1. buffer \in Seq(1 .. produced + 1) /\ produced + 1 \in 1 .. produced + 1
    <3>1. 1 .. produced \subseteq 1 .. produced + 1 /\ produced + 1 \in 1 .. produced + 1
      BY <1>1
    <3> QED BY <1>1, <3>1, SeqMonotonic
  <2> QED BY <1>2, <2>1, ToSetAppend
<1>4. /\ ToSet(buffer) \subseteq 1 .. produced /\ ToSet(drained) \subseteq 1 .. produced
      /\ ToSet(items) \subseteq 1 .. produced /\ ToSet(batch) \subseteq 1 .. produced
  BY <1>1, ToSetIsRange
<1> QED BY <1>1, <1>2, <1>3, <1>4 DEF Queued, OnItsWay

(* trimLocked on a sorted slice: what goes is older than what stays.        *)
LEMMA TrimSplits ==
    ASSUME NEW S, NEW s \in Seq(S), Sorted(s), trimLocked(s)
    PROVE  /\ Sorted(items') /\ ToSet(items') \subseteq ToSet(s)
           /\ \E P \in SUBSET ToSet(s) :
                /\ lost' = lost \union P /\ Before(P, ToSet(items'))
                /\ P = { s[i] : i \in 1 .. Over(s) }
           /\ Len(items') = Len(s) - Over(s)
<1> DEFINE P == { s[i] : i \in 1 .. Over(s) }
           t == SubSeq(s, Over(s) + 1, Len(s))
<1>1. Over(s) \in 0 .. Len(s) /\ Len(t) = Len(s) - Over(s)
  BY TrimKeepsSuffix
<1>2. ToSet(s) = P \union ToSet(t)
  BY <1>1, ToSetCut
<1>3. Sorted(t) /\ Before(P, ToSet(t))
  BY <1>1, SortedCut
<1>4. items' = t /\ lost' = lost \union P
  BY DEF trimLocked
<1> HIDE DEF P, t
<1>5. P \in SUBSET ToSet(s)
  BY <1>2
<1>6. lost' = lost \union P /\ Before(P, ToSet(items')) /\ P = { s[i] : i \in 1 .. Over(s) }
  BY <1>3, <1>4 DEF P
<1> QED BY <1>1, <1>2, <1>3, <1>4, <1>5, <1>6

(* Both parts on the steps that move events.                                *)
LEMMA PushKeepsOrder == QueueInv /\ Push => OrderInv' /\ LostInv'
<1> SUFFICES ASSUME QueueInv, Push PROVE OrderInv' /\ LostInv'
  OBVIOUS
<1> DEFINE s == items \o drained
<1>0. /\ items \in Seq(1 .. produced) /\ drained \in Seq(1 .. produced)
      /\ Len(items) \in Nat /\ Len(drained) \in Nat /\ Len(items) <= Capacity /\ Capacity \in Nat
  BY LenProperties, QueueAssumption DEF QueueInv, TypeOK, EventSeq
<1>1. s \in Seq(1 .. produced) /\ Sorted(s) /\ Len(s) = Len(items) + Len(drained)
  <2>1. Before(ToSet(items), ToSet(drained)) /\ Sorted(items) /\ Sorted(drained)
    BY DEF QueueInv, OrderInv, Before
  <2> QED BY <1>0, <2>1, SortedConcat, ConcatProperties
<1>2. ToSet(s) = ToSet(items) \union ToSet(drained)
  BY <1>0, ToSetConcat
<1>3. trimLocked(s) /\ drained' = <<>> /\ UNCHANGED <<buffer, batch>>
  BY DEF Push, watcherVars, flushVars
<1> HIDE DEF s
<1>4. Sorted(items') /\ ToSet(items') \subseteq ToSet(s) /\ Len(items') = Len(s) - Over(s)
  BY <1>1, <1>3, TrimSplits
<1>5. PICK P \in SUBSET ToSet(s) : /\ lost' = lost \union P /\ Before(P, ToSet(items'))
                                   /\ P = { s[i] : i \in 1 .. Over(s) }
  BY <1>1, <1>3, TrimSplits
<1>6. ToSet(drained') = {} /\ Sorted(drained')
  BY <1>3, ToSetEmpty, SortedEmpty
<1>7. Queued' \subseteq Queued
  BY <1>2, <1>3, <1>4, <1>6 DEF Queued
<1>8. OrderInv'
  <2>1. Before(ToSet(batch'), Queued')
    BY <1>3, <1>7 DEF QueueInv, OrderInv, Before
  <2>2. Before(ToSet(items'), ToSet(drained') \union ToSet(buffer'))
    BY <1>2, <1>3, <1>4, <1>6 DEF QueueInv, OrderInv, Before
  <2>3. Before(ToSet(drained'), ToSet(buffer'))
    BY <1>6 DEF Before
  <2> QED BY <1>3, <1>4, <1>6, <2>1, <2>2, <2>3 DEF QueueInv, OrderInv
<1>9. Before(lost', Queued')
  <2>1. Before(P, ToSet(buffer))
    BY <1>2 DEF QueueInv, OrderInv, Before
  <2>2. Before(lost, Queued')
    BY <1>7 DEF QueueInv, LostInv, Before
  <2>3. Queued' = ToSet(items') \union ToSet(buffer)
    BY <1>3, <1>6 DEF Queued
  <2> QED BY <1>5, <2>1, <2>2, <2>3 DEF Before
<1>10. Before(lost', ToSet(batch')) \/ Len(items') = Capacity
  <2>1. CASE Over(s) = 0
    <3>1. P = {} /\ Len(items') = Len(s)
      <4>1. 1 .. Over(s) = {}
        BY <2>1
      <4> QED BY <1>0, <1>1, <1>4, <1>5, <2>1, <4>1
    <3>2. Len(s) <= Capacity
      BY <1>0, <1>1, <2>1 DEF Over
    <3>3. CASE Before(lost, ToSet(batch))
      BY <1>3, <1>5, <3>1, <3>3
    <3>4. CASE Len(items) = Capacity
      BY <1>0, <1>1, <3>1, <3>2, <3>4
    <3> QED BY <3>3, <3>4 DEF QueueInv, LostInv
  <2>2. CASE Over(s) # 0
    BY <1>0, <1>1, <1>4, <2>2 DEF Over
  <2> QED BY <2>1, <2>2
<1> QED BY <1>8, <1>9, <1>10 DEF LostInv

LEMMA PopKeepsOrder == QueueInv /\ PopBatch => OrderInv' /\ LostInv'
<1> SUFFICES ASSUME QueueInv, PopBatch PROVE OrderInv' /\ LostInv'
  OBVIOUS
<1>0. items \in Seq(1 .. produced) /\ Sorted(items)
  BY DEF QueueInv, OrderInv, TypeOK, EventSeq
<1>1. BatchLen \in 0 .. Len(items)
  BY <1>0, PopSplits
<1>2. /\ batch' = SubSeq(items, 1, BatchLen)
      /\ items' = SubSeq(items, BatchLen + 1, Len(items))
      /\ UNCHANGED <<buffer, drained, lost>>
  BY DEF PopBatch, AfterPop, watcherVars
<1>3. /\ ToSet(batch') = { items[i] : i \in 1 .. BatchLen }
      /\ ToSet(items) = ToSet(batch') \union ToSet(items')
  BY <1>0, <1>1, <1>2, ToSetCut
<1>4. Sorted(batch') /\ Sorted(items') /\ Before(ToSet(batch'), ToSet(items'))
  BY <1>0, <1>1, <1>2, <1>3, SortedCut
<1>5. Queued' = ToSet(items') \union ToSet(drained) \union ToSet(buffer)
  BY <1>2 DEF Queued
<1>6. Before(ToSet(items), ToSet(drained) \union ToSet(buffer)) /\ Before(lost, Queued)
  BY DEF QueueInv, OrderInv, LostInv
<1>7. Before(ToSet(batch'), Queued')
  BY <1>3, <1>4, <1>5, <1>6 DEF Before
<1>8. Before(ToSet(items'), ToSet(drained') \union ToSet(buffer'))
  BY <1>2, <1>3, <1>6 DEF Before
<1>9. Before(lost', Queued') /\ Before(lost', ToSet(batch'))
  BY <1>2, <1>3, <1>5, <1>6 DEF Before, Queued
<1> QED BY <1>2, <1>4, <1>7, <1>8, <1>9 DEF QueueInv, OrderInv, LostInv

LEMMA RequeueKeepsOrder == QueueInv /\ Requeue => OrderInv' /\ LostInv'
<1> SUFFICES ASSUME QueueInv, Requeue PROVE OrderInv' /\ LostInv'
  OBVIOUS
<1> DEFINE s == batch \o items
<1>0. /\ items \in Seq(1 .. produced) /\ batch \in Seq(1 .. produced)
      /\ Len(items) \in Nat /\ Len(batch) \in Nat /\ Len(items) <= Capacity /\ Capacity \in Nat
  BY LenProperties, QueueAssumption DEF QueueInv, TypeOK, EventSeq
<1>1. /\ s \in Seq(1 .. produced) /\ Sorted(s) /\ Len(s) = Len(batch) + Len(items)
      /\ \A i \in 1 .. Len(batch) : s[i] = batch[i]
  <2>1. Before(ToSet(batch), ToSet(items)) /\ Sorted(items) /\ Sorted(batch)
    BY DEF QueueInv, OrderInv, Before, Queued
  <2>2. /\ Len(s) = Len(batch) + Len(items)
        /\ \A i \in 1 .. Len(batch) + Len(items) :
              s[i] = IF i <= Len(batch) THEN batch[i] ELSE items[i - Len(batch)]
    BY <1>0, ConcatProperties
  <2>3. s \in Seq(1 .. produced) /\ Sorted(s)
    BY <1>0, <2>1, SortedConcat
  <2> HIDE DEF s
  <2> QED BY <1>0, <2>2, <2>3
<1>2. ToSet(s) = ToSet(batch) \union ToSet(items)
  BY <1>0, ToSetConcat
<1>3. trimLocked(s) /\ batch' = <<>> /\ UNCHANGED <<buffer, drained>>
  BY DEF Requeue, Merged, watcherVars
<1> HIDE DEF s
<1>4. Sorted(items') /\ ToSet(items') \subseteq ToSet(s) /\ Len(items') = Len(s) - Over(s)
  BY <1>1, <1>3, TrimSplits
<1>5. PICK P \in SUBSET ToSet(s) : /\ lost' = lost \union P /\ Before(P, ToSet(items'))
                                   /\ P = { s[i] : i \in 1 .. Over(s) }
  BY <1>1, <1>3, TrimSplits
<1>6. ToSet(batch') = {} /\ Sorted(batch')
  BY <1>3, ToSetEmpty, SortedEmpty
<1>7. Queued' = ToSet(items') \union ToSet(drained) \union ToSet(buffer)
  BY <1>3 DEF Queued
<1>8. Before(ToSet(s), ToSet(drained) \union ToSet(buffer))
  BY <1>2 DEF QueueInv, OrderInv, Before, Queued
<1>9. OrderInv'
  <2>1. Before(ToSet(batch'), Queued')
    BY <1>6 DEF Before
  <2>2. Before(ToSet(items'), ToSet(drained') \union ToSet(buffer'))
    BY <1>3, <1>4, <1>8 DEF Before
  <2> QED BY <1>3, <1>4, <1>6, <2>1, <2>2 DEF QueueInv, OrderInv
<1>10. Before(lost, ToSet(items'))
  <2>1. Before(lost, ToSet(items))
    BY DEF QueueInv, LostInv, Before, Queued
  <2>2. CASE Before(lost, ToSet(batch))
    BY <1>2, <1>4, <2>1, <2>2 DEF Before
  <2>3. CASE Len(items) = Capacity
    <3>1. Over(s) = Len(batch)
      BY <1>0, <1>1, <2>3 DEF Over
    <3>2. P = ToSet(batch)
      <4>1. ToSet(batch) = { batch[i] : i \in 1 .. Len(batch) }
        BY <1>0, ToSetIsRange
      <4> QED BY <1>1, <1>5, <3>1, <4>1
    <3>3. ASSUME NEW y \in ToSet(items') PROVE y \in ToSet(items)
      <4>1. y \notin ToSet(batch)
        <5>1. y \in 1 .. produced
          BY <1>1, <1>4, <3>3, ToSetIsRange
        <5>2. y \in P => y < y
          BY <1>5, <3>3 DEF Before
        <5> QED BY <3>2, <5>1, <5>2
      <4> QED BY <1>2, <1>4, <4>1
    <3> QED BY <2>1, <3>3 DEF Before
  <2> QED BY <2>2, <2>3 DEF QueueInv, LostInv
<1>11. Before(lost', Queued')
  <2>1. Before(lost, ToSet(drained) \union ToSet(buffer))
    BY DEF QueueInv, LostInv, Before, Queued
  <2>2. Before(P, Queued')
    BY <1>5, <1>7, <1>8 DEF Before
  <2>3. Before(lost, Queued')
    BY <1>7, <1>10, <2>1 DEF Before
  <2> QED BY <1>5, <2>2, <2>3 DEF Before
<1>12. Before(lost', ToSet(batch'))
  BY <1>6 DEF Before
<1> QED BY <1>9, <1>11, <1>12 DEF LostInv

LEMMA NextOrder == QueueInv /\ [Next]_vars => OrderInv' /\ LostInv'
<1> SUFFICES ASSUME QueueInv, [Next]_vars PROVE OrderInv' /\ LostInv'
  OBVIOUS
<1>1. CASE AddEvent
  <2>1. /\ produced \in Nat /\ produced' = produced + 1
        /\ ToSet(buffer') = ToSet(buffer) \union {produced + 1}
        /\ Queued' = Queued \union {produced + 1}
        /\ OnItsWay \subseteq 1 .. produced
        /\ UNCHANGED <<items, drained, batch, lost>>
    BY <1>1, AddEventSets DEF QueueInv
  <2>2. Sorted(buffer')
    <3>1. buffer \in Seq(1 .. produced) /\ Sorted(buffer) /\ buffer' = Append(buffer, produced + 1)
      BY <1>1 DEF AddEvent, QueueInv, OrderInv, TypeOK, EventSeq
    <3> QED BY <2>1, <3>1, SortedAppend
  <2>3. ASSUME NEW x \in OnItsWay \union lost PROVE x < produced + 1
    <3>1. x \in 1 .. produced
      BY <2>1 DEF QueueInv, TypeOK
    <3> QED BY <2>1, <3>1
  <2>4. /\ Before(ToSet(batch'), Queued') /\ Before(lost', Queued')
        /\ Before(ToSet(items'), ToSet(drained') \union ToSet(buffer'))
        /\ Before(ToSet(drained'), ToSet(buffer'))
    <3>1. /\ Before(ToSet(batch), {produced + 1}) /\ Before(lost, {produced + 1})
          /\ Before(ToSet(items), {produced + 1}) /\ Before(ToSet(drained), {produced + 1})
      BY <2>3 DEF Before, OnItsWay, Queued
    <3> HIDE <2>3
    <3>2. Before(ToSet(batch'), Queued') /\ Before(lost', Queued')
      BY <2>1, <3>1 DEF Before, QueueInv, OrderInv, LostInv
    <3>3. /\ Before(ToSet(items'), ToSet(drained') \union ToSet(buffer'))
          /\ Before(ToSet(drained'), ToSet(buffer'))
      BY <2>1, <3>1 DEF Before, QueueInv, OrderInv
    <3> QED BY <3>2, <3>3
  <2> QED BY <2>1, <2>2, <2>4 DEF QueueInv, OrderInv, LostInv
<1>2. CASE DrainEvents
  <2>1. /\ drained = <<>> /\ drained' = buffer /\ buffer' = <<>>
        /\ UNCHANGED <<items, batch, lost>>
    BY <1>2 DEF DrainEvents, queueVars, flushVars, QueueInv, PumpInv
  <2>2. ToSet(drained) = {} /\ ToSet(buffer') = {} /\ Sorted(buffer')
    BY <2>1, ToSetEmpty, SortedEmpty
  <2>3. Queued' = Queued
    BY <2>1, <2>2 DEF Queued
  <2>4. /\ Before(ToSet(items'), ToSet(drained') \union ToSet(buffer'))
        /\ Before(ToSet(drained'), ToSet(buffer'))
    BY <2>1, <2>2 DEF Before, QueueInv, OrderInv
  <2> QED BY <2>1, <2>2, <2>3, <2>4 DEF QueueInv, OrderInv, LostInv
<1>3. CASE Push
  BY <1>3, PushKeepsOrder
<1>4. CASE PopBatch
  BY <1>4, PopKeepsOrder
<1>5. CASE SendWritten
  <2>1. batch' = <<>> /\ UNCHANGED <<items, drained, buffer, lost>>
    BY <1>5 DEF SendWritten, watcherVars, queueVars
  <2>2. ToSet(batch') = {} /\ Sorted(batch') /\ Queued' = Queued
    BY <2>1, ToSetEmpty, SortedEmpty DEF Queued
  <2> QED BY <2>1, <2>2 DEF QueueInv, OrderInv, LostInv, Before
<1>6. CASE Requeue
  BY <1>6, RequeueKeepsOrder
<1>7. CASE UNCHANGED <<produced, buffer, drained, items, batch, lost>>
  BY <1>7 DEF QueueInv, OrderInv, LostInv, Queued
<1> QED BY <1>1, <1>2, <1>3, <1>4, <1>5, <1>6, <1>7, QueueSteps

(***************************************************************************)
(* What the socket sees.  A frame is pending while the writer may still    *)
(* write it.  An event is fresh when writing it now keeps first deliveries *)
(* in order, and earlier when this session has not written it.             *)
(***************************************************************************)
Pending == writer = "write" \/ (out /\ writer = "run")

Fresh(e) == e \in WrittenEvents \/ \A w \in WrittenEvents : w < e

Earlier(e) ==
    \A i \in 1 .. Len(written) : written[i].event = e => written[i].session < sessionNo

OutInv == out => writer \in {"run", "exit"}

(* A pending frame is the batch in hand or, after a failed send, a batch    *)
(* that was requeued while its session closes; nothing on its way is older  *)
(* than the frame unless it is one of the frame's own events.               *)
FrameInv ==
    Pending =>
        /\ \/ flush \in {"wait", "requeue"} /\ frame.events = batch
           \/ flush = "idle" /\ session = "closing"
        /\ Sorted(frame.events)
        /\ \A f \in ToSet(frame.events) : Fresh(f) /\ Earlier(f)
        /\ \A e \in OnItsWay :
              e \in ToSet(frame.events) \/ \A f \in ToSet(frame.events) : f < e

FreshInv == \A e \in OnItsWay : Fresh(e)

SessionInv ==
    /\ \A i \in 1 .. Len(written) : written[i].session <= sessionNo
    /\ session = "up" => \A e \in Queued : Earlier(e)
    /\ flush = "send" => \A e \in ToSet(batch) : Earlier(e)

SocketInv ==
    /\ OutInv /\ FrameInv /\ FreshInv /\ SessionInv
    /\ FirstDeliveryInOrder /\ NoDuplicateInSession

(* But for a new event, nothing gets on its way that was not; and nothing   *)
(* returns to the queue but by Requeue.                                     *)
LEMMA WayShrinks ==
    ASSUME QueueInv, [Next]_vars, ~ AddEvent
    PROVE  /\ OnItsWay' \subseteq OnItsWay
           /\ ~ Requeue => Queued' \subseteq Queued
           /\ PopBatch => ToSet(batch') \subseteq Queued
<1>0. /\ items \in Seq(1 .. produced) /\ drained \in Seq(1 .. produced)
      /\ batch \in Seq(1 .. produced)
  BY DEF QueueInv, TypeOK, EventSeq
<1> DEFINE Goal == /\ OnItsWay' \subseteq OnItsWay
                   /\ ~ Requeue => Queued' \subseteq Queued
                   /\ PopBatch => ToSet(batch') \subseteq Queued
<1> SUFFICES Goal
  OBVIOUS
<1>1. ASSUME Queued' \subseteq Queued, ToSet(batch') \subseteq ToSet(batch), ~ PopBatch
      PROVE  Goal
  BY <1>1 DEF OnItsWay
<1>2. ASSUME Queued' \subseteq Queued, ToSet(batch') \subseteq Queued PROVE Goal
  BY <1>2 DEF OnItsWay
<1>3. ASSUME OnItsWay' \subseteq OnItsWay, Requeue, ~ PopBatch PROVE Goal
  BY <1>3
<1> HIDE DEF Goal
<1>4. CASE DrainEvents
  <2>1. /\ drained' = buffer /\ buffer' = <<>> /\ UNCHANGED <<items, batch>> /\ flush' = flush
    BY <1>4 DEF DrainEvents, queueVars, flushVars
  <2>2. ToSet(buffer') = {} /\ ~ PopBatch
    BY <2>1, ToSetEmpty DEF PopBatch
  <2> QED BY <1>1, <2>1, <2>2 DEF Queued
<1>5. CASE Push
  <2>1. /\ trimLocked(items \o drained) /\ drained' = <<>> /\ UNCHANGED <<buffer, batch, flush>>
    BY <1>5 DEF Push, watcherVars, flushVars
  <2>2. ToSet(drained') = {} /\ ~ PopBatch
    BY <2>1, ToSetEmpty DEF PopBatch
  <2>3. /\ items \o drained \in Seq(1 .. produced)
        /\ ToSet(items \o drained) = ToSet(items) \union ToSet(drained)
    BY <1>0, ConcatProperties, ToSetConcat
  <2>4. Sorted(items \o drained)
    <3>1. Before(ToSet(items), ToSet(drained)) /\ Sorted(items) /\ Sorted(drained)
      BY DEF QueueInv, OrderInv, Before
    <3> QED BY <1>0, <3>1, SortedConcat
  <2>5. ToSet(items') \subseteq ToSet(items \o drained)
    BY <2>1, <2>3, <2>4, TrimSplits
  <2> QED BY <1>1, <2>1, <2>2, <2>3, <2>5 DEF Queued
<1>6. CASE PopBatch
  <2>1. UNCHANGED <<buffer, drained>>
    BY <1>6 DEF PopBatch, watcherVars
  <2>2. ToSet(batch') \union ToSet(items') = ToSet(items)
    BY <1>0, <1>6, PopMovesToBatch
  <2> QED BY <1>2, <2>1, <2>2 DEF Queued
<1>7. CASE SendWritten
  <2>1. batch' = <<>> /\ UNCHANGED <<items, drained, buffer>> /\ flush' = "take"
    BY <1>7 DEF SendWritten, watcherVars, queueVars
  <2>2. ToSet(batch') = {} /\ ~ PopBatch
    BY <2>1, ToSetEmpty DEF PopBatch
  <2> QED BY <1>1, <2>1, <2>2 DEF Queued
<1>8. CASE Requeue
  <2>1. trimLocked(Merged) /\ batch' = <<>> /\ UNCHANGED <<drained, buffer>> /\ flush' = "idle"
    BY <1>8 DEF Requeue, watcherVars
  <2>2. Merged \in Seq(1 .. produced) /\ ToSet(Merged) = ToSet(batch) \union ToSet(items)
    BY <1>0, ConcatProperties, ToSetConcat DEF Merged
  <2>3. lost' \union ToSet(items') = lost \union ToSet(Merged)
    BY <2>1, <2>2, TrimMovesToLost
  <2>4. ToSet(items') \subseteq ToSet(Merged)
    <3>1. Sorted(Merged)
      <4>1. Before(ToSet(batch), ToSet(items)) /\ Sorted(items) /\ Sorted(batch)
        BY DEF QueueInv, OrderInv, Before, Queued
      <4> QED BY <1>0, <4>1, SortedConcat DEF Merged
    <3> QED BY <2>1, <2>2, <3>1, TrimSplits
  <2>5. ToSet(batch') = {} /\ ~ PopBatch
    BY <2>1, ToSetEmpty DEF PopBatch
  <2>6. OnItsWay' \subseteq OnItsWay
    BY <2>1, <2>2, <2>4, <2>5 DEF OnItsWay, Queued
  <2> QED BY <1>3, <1>8, <2>5, <2>6
<1>9. CASE UNCHANGED <<produced, buffer, drained, items, batch, lost>> /\ ~ PopBatch
  <2>1. Queued' = Queued /\ ToSet(batch') = ToSet(batch)
    BY <1>9 DEF Queued
  <2> QED BY <1>1, <1>9, <2>1
<1> QED BY <1>4, <1>5, <1>6, <1>7, <1>8, <1>9, QueueSteps

LEMMA NextOut == TypeOK /\ Handshake /\ OutInv /\ [Next]_vars => OutInv'
<1> SUFFICES ASSUME TypeOK, Handshake, OutInv, [Next]_vars PROVE OutInv'
  OBVIOUS
<1> USE DEF OutInv, watcherVars, queueVars, flushVars, writerVars, sessionVars
<1>1. CASE UNCHANGED <<out, writer>>
  BY <1>1
<1>2. CASE AddEvent \/ Signal \/ PumpReceive \/ DrainEvents \/ Push \/ SendTimeout
           \/ UNCHANGED vars
  BY <1>1, <1>2 DEF AddEvent, Signal, PumpReceive, DrainEvents, Push, SendTimeout, vars
<1>3. CASE FlushStart \/ TakeDropped \/ PopBatch \/ FlushEnd
           \/ SendRefused \/ SendWritten \/ SendFailed \/ Requeue
  BY <1>1, <1>3 DEF FlushStart, TakeDropped, PopBatch, FlushEnd,
     SendRefused, SendWritten, SendFailed, Requeue
<1>4. CASE SendQueued
  BY <1>4 DEF SendQueued, Handshake
<1>5. CASE WriterTakes \/ WriteFrame \/ WriterResult \/ WriterFails \/ WriterStops
  BY <1>5 DEF WriterTakes, WriteFrame, WriterResult, WriterFails, WriterStops
<1>6. CASE Connect \/ SessionFails \/ SessionReturns \/ Teardown
  BY <1>6 DEF Connect, SessionFails, SessionReturns, Teardown
<1> QED BY <1>2, <1>3, <1>4, <1>5, <1>6 DEF Next, Flush

LEMMA SameSocket ==
    ASSUME UNCHANGED written
    PROVE  /\ WrittenEvents' = WrittenEvents
           /\ \A e : Fresh(e)' <=> Fresh(e)
           /\ sessionNo' = sessionNo => \A e : Earlier(e)' <=> Earlier(e)
  BY DEF WrittenEvents, Fresh, Earlier

LEMMA WrittenTypes ==
    ASSUME TypeOK
    PROVE  /\ WrittenEvents \subseteq 1 .. produced /\ produced \in Nat
           /\ Len(written) \in Nat /\ sessionNo \in Nat
           /\ \A i \in 1 .. Len(written) :
                 /\ written[i].event \in 1 .. produced /\ written[i].event \in WrittenEvents
                 /\ written[i].session \in Nat
<1>1. /\ Len(written) \in Nat /\ produced \in Nat /\ sessionNo \in Nat
      /\ \A i \in 1 .. Len(written) : written[i] \in [event : 1 .. produced, session : Nat]
  BY LenProperties, ElementOfSeq DEF TypeOK
<1> QED BY <1>1 DEF WrittenEvents

(* A new event has not been written.                                        *)
LEMMA NewEvent ==
    ASSUME TypeOK, AddEvent
    PROVE  /\ UNCHANGED <<written, sessionNo, session, flush>>
           /\ Fresh(produced + 1) /\ Earlier(produced + 1)
<1>1. UNCHANGED <<written, sessionNo, session, flush>>
  BY DEF AddEvent, writerVars, sessionVars, flushVars
<1>2. \A w \in 1 .. produced : w < produced + 1 /\ w # produced + 1
  BY WrittenTypes
<1>3. Fresh(produced + 1)
  BY <1>2, WrittenTypes DEF Fresh
<1>4. Earlier(produced + 1)
  BY <1>2, WrittenTypes DEF Earlier
<1> QED BY <1>1, <1>3, <1>4

LEMMA NextFresh == QueueInv /\ SocketInv /\ [Next]_vars => FreshInv'
<1> SUFFICES ASSUME QueueInv, SocketInv, [Next]_vars PROVE FreshInv'
  OBVIOUS
<1>1. CASE AddEvent
  <2>1. OnItsWay' = OnItsWay \union {produced + 1}
    BY <1>1, AddEventSets DEF QueueInv
  <2>2. UNCHANGED written /\ Fresh(produced + 1)
    BY <1>1, NewEvent DEF QueueInv
  <2>3. \A e : Fresh(e)' <=> Fresh(e)
    BY <2>2, SameSocket
  <2>4. \A e \in OnItsWay : Fresh(e)
    BY DEF SocketInv, FreshInv
  <2> QED BY <2>1, <2>2, <2>3, <2>4 DEF FreshInv
<1>2. CASE WriteFrame
  <2>1. WrittenEvents' = WrittenEvents \union ToSet(frame.events)
    BY <1>2, WriteAppends DEF QueueInv
  <2>2. OnItsWay' = OnItsWay
    BY <1>2 DEF WriteFrame, watcherVars, queueVars, flushVars, OnItsWay, Queued
  <2>3. \A e \in OnItsWay : e \in ToSet(frame.events) \/ \A f \in ToSet(frame.events) : f < e
    BY <1>2 DEF SocketInv, FrameInv, Pending, WriteFrame
  <2>4. \A e \in OnItsWay : e \in WrittenEvents \/ \A w \in WrittenEvents : w < e
    BY DEF SocketInv, FreshInv, Fresh
  <2>5. ASSUME NEW e \in OnItsWay'
        PROVE  e \in WrittenEvents' \/ \A w \in WrittenEvents' : w < e
    BY <2>1, <2>2, <2>3, <2>4
  <2> QED BY <2>5 DEF FreshInv, Fresh
<1>3. CASE ~ AddEvent /\ ~ WriteFrame
  <2>1. UNCHANGED written
    BY <1>3, SocketSteps DEF Connect
  <2>2. OnItsWay' \subseteq OnItsWay
    BY <1>3, WayShrinks
  <2>3. \A e : Fresh(e)' <=> Fresh(e)
    BY <2>1, SameSocket
  <2>4. \A e \in OnItsWay : Fresh(e)
    BY DEF SocketInv, FreshInv
  <2> QED BY <2>2, <2>3, <2>4 DEF FreshInv
<1> QED BY <1>1, <1>2, <1>3

(* Only Connect brings a session up, only PopBatch fills the batch.         *)
LEMMA SessionSteps ==
    ASSUME Handshake, [Next]_vars
    PROVE  /\ session' = "up" => Connect \/ (session = "up" /\ ~ Requeue)
           /\ flush' = "send" => PopBatch \/ (flush = "send" /\ batch' = batch /\ ~ Connect)
<1> USE DEF watcherVars, queueVars, flushVars, writerVars, sessionVars
<1>1. CASE AddEvent \/ Signal \/ PumpReceive \/ DrainEvents \/ Push \/ SendTimeout
           \/ UNCHANGED vars
  BY <1>1 DEF AddEvent, Signal, PumpReceive, DrainEvents, Push, SendTimeout, vars,
     Requeue, Connect
<1>2. CASE FlushStart \/ TakeDropped \/ PopBatch \/ FlushEnd
           \/ SendQueued \/ SendRefused \/ SendWritten \/ SendFailed
  BY <1>2 DEF FlushStart, TakeDropped, PopBatch, FlushEnd,
     SendQueued, SendRefused, SendWritten, SendFailed, Requeue
<1>3. CASE Requeue
  BY <1>3 DEF Requeue
<1>4. CASE WriterTakes \/ WriteFrame \/ WriterResult \/ WriterFails \/ WriterStops
  BY <1>4 DEF WriterTakes, WriteFrame, WriterResult, WriterFails, WriterStops, Requeue, Connect
<1>5. CASE SessionFails \/ SessionReturns \/ Teardown
  BY <1>5 DEF SessionFails, SessionReturns, Teardown, Requeue, Connect
<1>6. CASE Connect
  BY <1>6 DEF Connect, Handshake
<1> QED BY <1>1, <1>2, <1>3, <1>4, <1>5, <1>6 DEF Next, Flush

LEMMA NextSession == QueueInv /\ SocketInv /\ [Next]_vars => SessionInv'
<1> SUFFICES ASSUME QueueInv, SocketInv, [Next]_vars PROVE SessionInv'
  OBVIOUS
<1>0. /\ TypeOK /\ Handshake /\ SessionInv /\ FrameInv /\ OrderInv
      /\ Len(written) \in Nat /\ sessionNo \in Nat
      /\ \A i \in 1 .. Len(written) : written[i].session \in Nat
  BY WrittenTypes DEF QueueInv, SocketInv
<1>1. CASE WriteFrame
  <2>1. /\ Len(frame.events) \in Nat
        /\ Len(written') = Len(written) + Len(frame.events)
        /\ \A i \in 1 .. Len(written) : written'[i] = written[i]
        /\ \A i \in 1 .. Len(frame.events) :
              written'[Len(written) + i] =
                 [event |-> frame.events[i], session |-> sessionNo]
    BY <1>0, <1>1, WriteAppends
  <2>2. /\ UNCHANGED <<sessionNo, session, flush, batch, items, drained, buffer>> /\ Pending
    BY <1>1 DEF WriteFrame, watcherVars, queueVars, flushVars, sessionVars, Pending
  <2>3. ASSUME NEW i \in 1 .. Len(written')
        PROVE  \/ i \in 1 .. Len(written) /\ written'[i] = written[i]
               \/ \E k \in 1 .. Len(frame.events) :
                     written'[i] = [event |-> frame.events[k], session |-> sessionNo]
    <3>1. CASE i <= Len(written)
      <4>1. i \in 1 .. Len(written)
        BY <1>0, <3>1
      <4> QED BY <2>1, <4>1
    <3>2. CASE ~ (i <= Len(written))
      <4>1. PICK k \in 1 .. Len(frame.events) : i = Len(written) + k
        <5>1. i - Len(written) \in 1 .. Len(frame.events) /\ i = Len(written) + (i - Len(written))
          BY <1>0, <2>1, <3>2
        <5> QED BY <5>1
      <4>2. written'[Len(written) + k] = [event |-> frame.events[k], session |-> sessionNo]
        BY <2>1
      <4> QED BY <4>1, <4>2
    <3> QED BY <3>1, <3>2
  <2>4. \A i \in 1 .. Len(written') : written'[i].session <= sessionNo'
    <3>1. TAKE i \in 1 .. Len(written')
    <3>2. CASE i \in 1 .. Len(written) /\ written'[i] = written[i]
      BY <1>0, <2>2, <3>2 DEF SessionInv
    <3>3. CASE \E k \in 1 .. Len(frame.events) :
                  written'[i] = [event |-> frame.events[k], session |-> sessionNo]
      BY <1>0, <2>2, <3>3
    <3> QED BY <2>3, <3>2, <3>3
  <2>5. ASSUME session' = "up", NEW e \in Queued', NEW i \in 1 .. Len(written'),
               written'[i].event = e
        PROVE  written'[i].session < sessionNo'
    <3>1. session = "up" /\ e \in Queued
      BY <2>2, <2>5 DEF Queued
    <3>2. frame.events = batch
      BY <1>0, <2>2, <3>1 DEF FrameInv
    <3>3. CASE i \in 1 .. Len(written) /\ written'[i] = written[i]
      BY <1>0, <2>2, <2>5, <3>1, <3>3 DEF SessionInv, Earlier
    <3>4. CASE \E k \in 1 .. Len(frame.events) :
                  written'[i] = [event |-> frame.events[k], session |-> sessionNo]
      <4>1. PICK k \in 1 .. Len(batch) : e = batch[k]
        BY <2>5, <3>2, <3>4
      <4>2. batch \in Seq(1 .. produced)
        BY <1>0 DEF TypeOK, EventSeq
      <4>3. e \in ToSet(batch) /\ e \in 1 .. produced
        BY <4>1, <4>2, ToSetIsRange
      <4>4. e < e
        BY <1>0, <3>1, <4>3 DEF OrderInv, Before
      <4> QED BY <4>3, <4>4
    <3> QED BY <2>3, <3>3, <3>4
  <2>6. flush' # "send"
    BY <1>0, <2>2 DEF FrameInv
  <2> QED BY <2>4, <2>5, <2>6 DEF SessionInv, Earlier
<1>2. CASE Connect
  <2>1. sessionNo' = sessionNo + 1 /\ UNCHANGED <<written, flush>> /\ flush # "send"
    BY <1>0, <1>2 DEF Connect, flushVars, Handshake
  <2>2. \A i \in 1 .. Len(written) : written[i].session <= sessionNo
    BY <1>0 DEF SessionInv
  <2>3. \A i \in 1 .. Len(written') : written'[i].session < sessionNo'
    BY <1>0, <2>1, <2>2
  <2>4. \A i \in 1 .. Len(written') : written'[i].session <= sessionNo'
    BY <1>0, <2>1, <2>2
  <2> QED BY <2>1, <2>3, <2>4 DEF SessionInv, Earlier
<1>3. CASE ~ WriteFrame /\ ~ Connect
  <2>1. UNCHANGED <<written, sessionNo>>
    BY <1>3, SocketSteps
  <2>2. \A e : Earlier(e)' <=> Earlier(e)
    BY <2>1, SameSocket
  <2>3. \A i \in 1 .. Len(written') : written'[i].session <= sessionNo'
    BY <1>0, <2>1 DEF SessionInv
  <2>4. ASSUME session' = "up", NEW e \in Queued' PROVE Earlier(e)
    <3>1. session = "up" /\ ~ Requeue
      BY <1>0, <1>3, <2>4, SessionSteps
    <3>2. CASE AddEvent
      BY <1>0, <2>4, <3>1, <3>2, AddEventSets, NewEvent DEF SessionInv
    <3>3. CASE ~ AddEvent
      BY <1>0, <2>4, <3>1, <3>3, WayShrinks DEF SessionInv
    <3> QED BY <3>2, <3>3
  <2>5. ASSUME flush' = "send", NEW e \in ToSet(batch') PROVE Earlier(e)
    <3>1. CASE PopBatch
      <4>1. session = "up" /\ ~ AddEvent
        BY <1>0, <3>1 DEF PopBatch, Handshake, AddEvent, watcherVars, flushVars
      <4>2. e \in Queued
        BY <2>5, <3>1, <4>1, WayShrinks
      <4> QED BY <1>0, <4>1, <4>2 DEF SessionInv
    <3>2. CASE flush = "send" /\ batch' = batch
      BY <1>0, <2>5, <3>2 DEF SessionInv
    <3> QED BY <1>0, <2>5, <3>1, <3>2, SessionSteps
  <2> QED BY <2>2, <2>3, <2>4, <2>5 DEF SessionInv
<1> QED BY <1>1, <1>2, <1>3

(* How a frame becomes pending, and how it stays so.                        *)
LEMMA PendingSteps ==
    ASSUME QueueInv, SocketInv, [Next]_vars, Pending', ~ SendQueued
    PROVE  /\ Pending /\ ~ WriteFrame /\ UNCHANGED <<frame, written, sessionNo>>
           /\ \/ flush' \in {"wait", "requeue"} /\ frame.events = batch'
              \/ flush' = "idle" /\ session' = "closing"
<1>0. TypeOK /\ Handshake /\ OutInv /\ FrameInv
  BY DEF QueueInv, SocketInv
<1> DEFINE Where == \/ flush \in {"wait", "requeue"} /\ frame.events = batch
                    \/ flush = "idle" /\ session = "closing"
<1>1. Pending => Where
  BY <1>0 DEF FrameInv
<1> USE DEF watcherVars, queueVars, flushVars, writerVars, sessionVars
<1>2. CASE AddEvent \/ Signal \/ PumpReceive \/ DrainEvents \/ Push \/ UNCHANGED vars
  BY <1>1, <1>2 DEF AddEvent, Signal, PumpReceive, DrainEvents, Push, vars, Pending, WriteFrame
<1>3. CASE FlushStart \/ TakeDropped \/ PopBatch \/ FlushEnd \/ SendRefused \/ SendTimeout
  BY <1>1, <1>3 DEF FlushStart, TakeDropped, PopBatch, FlushEnd, SendRefused, SendTimeout,
     Pending, WriteFrame
<1>4. CASE SendWritten
  BY <1>0, <1>1, <1>4 DEF SendWritten, Pending, WriteFrame, Handshake
<1>5. CASE SendFailed
  BY <1>1, <1>5 DEF SendFailed, Pending, WriteFrame
<1>6. CASE Requeue
  BY <1>1, <1>6 DEF Requeue, Pending, WriteFrame
<1>7. CASE WriterTakes \/ WriterResult \/ WriterFails \/ WriterStops
  BY <1>0, <1>1, <1>7 DEF WriterTakes, WriterResult, WriterFails, WriterStops, Pending,
     WriteFrame, OutInv
<1>8. CASE WriteFrame
  BY <1>0, <1>8 DEF WriteFrame, Pending
<1>9. CASE Connect \/ SessionFails \/ SessionReturns \/ Teardown
  BY <1>0, <1>1, <1>9 DEF Connect, SessionFails, SessionReturns, Teardown, Pending,
     WriteFrame, Handshake
<1> QED BY <1>2, <1>3, <1>4, <1>5, <1>6, <1>7, <1>8, <1>9 DEF Next, Flush

LEMMA NextFrame == QueueInv /\ SocketInv /\ [Next]_vars => FrameInv'
<1> SUFFICES ASSUME QueueInv, SocketInv, [Next]_vars, Pending' PROVE FrameInv'
  BY DEF FrameInv
<1>0. TypeOK /\ Handshake /\ OrderInv /\ FrameInv /\ FreshInv /\ SessionInv
  BY DEF QueueInv, SocketInv
<1>1. CASE SendQueued
  <2>1. /\ flush = "send" /\ flush' = "wait" /\ frame' = [events |-> batch, dropped |-> taken]
        /\ UNCHANGED <<batch, items, drained, buffer, written, sessionNo>>
    BY <1>1 DEF SendQueued, watcherVars, queueVars, sessionVars
  <2>2. frame'.events = batch /\ OnItsWay' = OnItsWay
    BY <2>1 DEF OnItsWay, Queued
  <2>3. \A e : (Fresh(e)' <=> Fresh(e)) /\ (Earlier(e)' <=> Earlier(e))
    BY <2>1, SameSocket
  <2>4. \A f \in ToSet(batch) : Fresh(f) /\ Earlier(f)
    BY <1>0, <2>1 DEF FreshInv, SessionInv, OnItsWay
  <2>5. \A e \in OnItsWay : e \in ToSet(batch) \/ \A f \in ToSet(batch) : f < e
    BY <1>0 DEF OrderInv, Before, OnItsWay
  <2>6. Sorted(batch)
    BY <1>0 DEF OrderInv
  <2> QED BY <2>1, <2>2, <2>3, <2>4, <2>5, <2>6 DEF FrameInv
<1>2. CASE ~ SendQueued
  <2>1. /\ Pending /\ UNCHANGED <<frame, written, sessionNo>>
        /\ \/ flush' \in {"wait", "requeue"} /\ frame.events = batch'
           \/ flush' = "idle" /\ session' = "closing"
    BY <1>2, PendingSteps
  <2>2. \A e : (Fresh(e)' <=> Fresh(e)) /\ (Earlier(e)' <=> Earlier(e))
    BY <2>1, SameSocket
  <2>3. ASSUME NEW e \in OnItsWay'
        PROVE  e \in ToSet(frame.events) \/ \A f \in ToSet(frame.events) : f < e
    <3>1. CASE e \in OnItsWay
      BY <1>0, <2>1, <3>1 DEF FrameInv
    <3>2. CASE e \notin OnItsWay
      <4>1. AddEvent
        BY <2>3, <3>2, WayShrinks
      <4>2. e = produced + 1 /\ produced \in Nat
        BY <1>0, <2>3, <3>2, <4>1, AddEventSets
      <4>3. ToSet(frame.events) \subseteq 1 .. produced
        <5>1. frame.events \in Seq(1 .. produced)
          BY <1>0 DEF TypeOK, EventSeq
        <5> QED BY <5>1, ToSetIsRange
      <4> QED BY <4>2, <4>3
    <3> QED BY <3>1, <3>2
  <2>4. Sorted(frame.events) /\ \A f \in ToSet(frame.events) : Fresh(f) /\ Earlier(f)
    BY <1>0, <2>1 DEF FrameInv
  <2> QED BY <2>1, <2>2, <2>3, <2>4 DEF FrameInv
<1> QED BY <1>1, <1>2

LEMMA NextDelivered ==
    QueueInv /\ SocketInv /\ [Next]_vars => FirstDeliveryInOrder' /\ NoDuplicateInSession'
<1> SUFFICES ASSUME QueueInv, SocketInv, [Next]_vars
             PROVE  FirstDeliveryInOrder' /\ NoDuplicateInSession'
  OBVIOUS
<1>0. TypeOK /\ FrameInv /\ FirstDeliveryInOrder /\ NoDuplicateInSession
  BY DEF QueueInv, SocketInv
<1>1. CASE UNCHANGED written
  BY <1>0, <1>1 DEF FirstDeliveryInOrder, NoDuplicateInSession
<1>2. CASE WriteFrame
  <2> DEFINE n == Len(written)
             m == Len(frame.events)
  <2>1. /\ m \in Nat /\ n \in Nat /\ Len(written') = n + m
        /\ \A i \in 1 .. n : written'[i] = written[i]
        /\ \A i \in 1 .. m :
              written'[n + i] = [event |-> frame.events[i], session |-> sessionNo]
    BY <1>0, <1>2, WriteAppends
  <2>2. /\ Sorted(frame.events)
        /\ \A f \in ToSet(frame.events) : Fresh(f) /\ Earlier(f)
        /\ \A k \in 1 .. m : frame.events[k] \in ToSet(frame.events)
        /\ \A k \in 1 .. m : frame.events[k] \in 1 .. produced
    <3>1. Pending
      BY <1>2 DEF WriteFrame, Pending
    <3>2. frame.events \in Seq(1 .. produced)
      BY <1>0 DEF TypeOK, EventSeq
    <3> QED BY <1>0, <3>1, <3>2, ToSetIsRange, ElementOfSeq DEF FrameInv
  <2>3. /\ WrittenEvents = { written[i].event : i \in 1 .. n } /\ produced \in Nat
        /\ \A i \in 1 .. n : written[i].event \in WrittenEvents
    BY <1>0, WrittenTypes DEF WrittenEvents
  <2>4. \A k \in 1 .. m : /\ written'[n + k].event = frame.events[k]
                          /\ written'[n + k].session = sessionNo
    <3>1. TAKE k \in 1 .. m
    <3>2. written'[n + k] = [event |-> frame.events[k], session |-> sessionNo]
      BY <2>1
    <3> QED BY <3>2
  <2> HIDE DEF n, m
  <2>5. ASSUME NEW j \in 1 .. n + m
        PROVE  j \in 1 .. n \/ \E k \in 1 .. m : j = n + k
    <3>1. CASE j <= n
      BY <2>1, <3>1
    <3>2. CASE ~ (j <= n)
      <4>1. j - n \in 1 .. m /\ j = n + (j - n)
        BY <2>1, <3>2
      <4> QED BY <4>1
    <3> QED BY <3>1, <3>2
  <2>6. FirstDeliveryInOrder'
    <3>1. SUFFICES ASSUME NEW j \in 1 .. n + m
                   PROVE  \/ \E i \in 1 .. j - 1 : written'[i].event = written'[j].event
                          \/ \A i \in 1 .. j - 1 : written'[i].event < written'[j].event
      BY <2>1 DEF FirstDeliveryInOrder
    <3>2. CASE j \in 1 .. n
      <4>1. \/ \E i \in 1 .. j - 1 : written[i].event = written[j].event
            \/ \A i \in 1 .. j - 1 : written[i].event < written[j].event
        BY <1>0, <3>2 DEF FirstDeliveryInOrder, n
      <4>2. \A i \in 1 .. j - 1 : i \in 1 .. n
        BY <2>1, <3>2
      <4>3. written'[j] = written[j] /\ \A i \in 1 .. j - 1 : written'[i] = written[i]
        BY <2>1, <3>2, <4>2
      <4> QED BY <4>1, <4>3
    <3>3. CASE \E k \in 1 .. m : j = n + k
      <4>1. PICK k \in 1 .. m : j = n + k
        BY <3>3
      <4>2. PICK e \in ToSet(frame.events) : e = frame.events[k]
        BY <2>2
      <4>3. written'[j].event = e
        BY <2>4, <4>1, <4>2
      <4>4. e \in WrittenEvents \/ \A w \in WrittenEvents : w < e
        BY <2>2 DEF Fresh
      <4>5. CASE e \in WrittenEvents
        <5>1. PICK i \in 1 .. n : e = written[i].event
          BY <2>3, <4>5
        <5>2. i \in 1 .. j - 1 /\ written'[i].event = e
          BY <2>1, <4>1, <5>1
        <5> QED BY <4>3, <5>2
      <4>6. CASE \A w \in WrittenEvents : w < e
        <5>1. ASSUME NEW i \in 1 .. j - 1 PROVE written'[i].event < e
          <6>1. i \in 1 .. n + m
            BY <2>1, <4>1
          <6>2. CASE i \in 1 .. n
            BY <2>1, <2>3, <4>6, <6>2
          <6>3. CASE \E l \in 1 .. m : i = n + l
            <7>1. PICK l \in 1 .. m : i = n + l
              BY <6>3
            <7>2. l < k
              BY <2>1, <4>1, <7>1
            <7>3. frame.events[l] < frame.events[k]
              BY <2>2, <7>2 DEF Sorted, m
            <7> QED BY <2>4, <4>2, <7>1, <7>3
          <6> QED BY <2>5, <6>1, <6>2, <6>3
        <5> QED BY <4>3, <5>1
      <4> QED BY <4>4, <4>5, <4>6
    <3> QED BY <2>5, <3>2, <3>3
  <2>7. NoDuplicateInSession'
    <3>1. SUFFICES ASSUME NEW i \in 1 .. n + m, NEW j \in 1 .. n + m, i < j,
                          written'[i].event = written'[j].event
                   PROVE  written'[i].session < written'[j].session
      BY <2>1 DEF NoDuplicateInSession
    <3>2. CASE j \in 1 .. n
      <4>1. i \in 1 .. n
        BY <2>1, <3>1, <3>2
      <4> QED BY <1>0, <2>1, <3>1, <3>2, <4>1 DEF NoDuplicateInSession, n
    <3>3. CASE \E k \in 1 .. m : j = n + k
      <4>1. PICK k \in 1 .. m : j = n + k
        BY <3>3
      <4>2. PICK e \in ToSet(frame.events) : e = frame.events[k]
        BY <2>2
      <4>3. written'[j].event = e /\ written'[j].session = sessionNo /\ Earlier(e)
        BY <2>2, <2>4, <4>1, <4>2
      <4>4. CASE i \in 1 .. n
        <5>1. written[i].event = e /\ written'[i].session = written[i].session
          BY <2>1, <3>1, <4>3, <4>4
        <5>2. written[i].session < sessionNo
          BY <4>3, <4>4, <5>1 DEF Earlier, n
        <5> QED BY <4>3, <5>1, <5>2
      <4>5. CASE \E l \in 1 .. m : i = n + l
        <5>1. PICK l \in 1 .. m : i = n + l
          BY <4>5
        <5>2. l < k
          BY <2>1, <3>1, <4>1, <5>1
        <5>3. frame.events[l] < frame.events[k]
          BY <2>2, <5>2 DEF Sorted, m
        <5>4. frame.events[l] = frame.events[k]
          BY <2>4, <3>1, <4>2, <4>3, <5>1
        <5>5. frame.events[k] \in 1 .. produced
          BY <2>2
        <5> QED BY <2>3, <5>3, <5>4, <5>5
      <4> QED BY <2>5, <4>4, <4>5
    <3> QED BY <2>5, <3>2, <3>3
  <2> QED BY <2>6, <2>7
<1> QED BY <1>1, <1>2, SocketSteps DEF Connect

LEMMA InitQueue == Init => QueueInv /\ SocketInv
<1> SUFFICES ASSUME Init PROVE QueueInv /\ SocketInv
  OBVIOUS
<1>1. TypeOK /\ Handshake
  BY InitAccounting DEF AccountingInv
<1>2. /\ batch = <<>> /\ items = <<>> /\ drained = <<>> /\ buffer = <<>> /\ lost = {}
      /\ written = <<>> /\ out = FALSE /\ writer = "exit" /\ session = "down" /\ flush = "idle"
  BY DEF Init
<1>3. /\ ToSet(batch) = {} /\ ToSet(items) = {} /\ ToSet(drained) = {} /\ ToSet(buffer) = {}
      /\ Queued = {} /\ OnItsWay = {}
  BY <1>2, ToSetEmpty DEF Queued, OnItsWay
<1>4. PumpInv /\ OrderInv /\ LostInv
  BY <1>2, <1>3, SortedEmpty DEF PumpInv, OrderInv, LostInv, Before
<1>5. OutInv /\ FrameInv /\ FreshInv
  BY <1>2, <1>3 DEF OutInv, FrameInv, FreshInv, Pending
<1>6. 1 .. Len(written) = {}
  BY <1>2
<1>7. SessionInv /\ FirstDeliveryInOrder /\ NoDuplicateInSession
  BY <1>2, <1>3, <1>6 DEF SessionInv, FirstDeliveryInOrder, NoDuplicateInSession
<1> QED BY <1>1, <1>4, <1>5, <1>7 DEF QueueInv, SocketInv

LEMMA OrderImplies == QueueInv /\ SocketInv => InOrder
<1> SUFFICES ASSUME QueueInv, SocketInv PROVE InOrder
  OBVIOUS
<1>1. /\ batch \in Seq(1 .. produced) /\ items \in Seq(1 .. produced)
      /\ drained \in Seq(1 .. produced) /\ buffer \in Seq(1 .. produced)
  BY DEF QueueInv, TypeOK, EventSeq
<1>2. /\ Sorted(batch) /\ Sorted(items) /\ Sorted(drained) /\ Sorted(buffer)
      /\ Before(ToSet(batch), ToSet(items) \union ToSet(drained) \union ToSet(buffer))
      /\ Before(ToSet(items), ToSet(drained) \union ToSet(buffer))
      /\ Before(ToSet(drained), ToSet(buffer))
  BY DEF QueueInv, OrderInv, Queued
<1> DEFINE a == batch \o items
           b == a \o drained
<1>3. a \in Seq(1 .. produced) /\ Sorted(a) /\ ToSet(a) = ToSet(batch) \union ToSet(items)
  <2>1. Before(ToSet(batch), ToSet(items))
    BY <1>2 DEF Before
  <2> QED BY <1>1, <1>2, <2>1, SortedConcat, ToSetConcat
<1>4. b \in Seq(1 .. produced) /\ Sorted(b) /\ ToSet(b) = ToSet(a) \union ToSet(drained)
  <2> HIDE DEF a
  <2>1. Before(ToSet(a), ToSet(drained))
    BY <1>2, <1>3 DEF Before
  <2>2. b \in Seq(1 .. produced) /\ Sorted(b)
    BY <1>1, <1>2, <1>3, <2>1, SortedConcat
  <2>3. ToSet(b) = ToSet(a) \union ToSet(drained)
    BY <1>1, <1>3, ToSetConcat
  <2> QED BY <2>2, <2>3
<1>5. Sorted(b \o buffer)
  <2> HIDE DEF a, b
  <2>1. Before(ToSet(b), ToSet(buffer))
    BY <1>2, <1>3, <1>4 DEF Before
  <2> QED BY <1>1, <1>2, <1>4, <2>1, SortedConcat
<1>6. InArrivalOrder
  BY <1>5 DEF InArrivalOrder, Sorted
<1>7. DropsOldest
  <2>1. \A i \in 1 .. Len(items) : items[i] \in ToSet(items)
    BY <1>1, ToSetIsRange
  <2> QED BY <2>1 DEF DropsOldest, QueueInv, LostInv, Before, Queued
<1> QED BY <1>6, <1>7 DEF InOrder, SocketInv

(* Order is kept from the watchers to the socket, through overflow, failed  *)
(* batches and new sessions (Push, PopBatch, Requeue, trimLocked,           *)
(* writeLoop, the teardown that waits for the writer).                      *)
THEOREM DeliveredInOrder == Spec => []InOrder
<1>1. QueueInv /\ SocketInv /\ [Next]_vars => (QueueInv /\ SocketInv)'
  <2> SUFFICES ASSUME QueueInv, SocketInv, [Next]_vars PROVE QueueInv' /\ SocketInv'
    OBVIOUS
  <2>1. TypeOK' /\ Handshake' /\ PumpInv' /\ OutInv'
    BY NextType, NextHandshake, NextPump, NextOut DEF QueueInv, SocketInv
  <2>2. OrderInv' /\ LostInv'
    BY NextOrder
  <2>3. FrameInv' /\ FreshInv' /\ SessionInv' /\ FirstDeliveryInOrder' /\ NoDuplicateInSession'
    BY NextFrame, NextFresh, NextSession, NextDelivered
  <2> QED BY <2>1, <2>2, <2>3 DEF QueueInv, SocketInv
<1> QED BY <1>1, InitQueue, OrderImplies, PTL DEF Spec
=============================================================================
