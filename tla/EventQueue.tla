----------------------------- MODULE EventQueue -----------------------------
(***************************************************************************)
(* The agent's path for authentication events, from the log watchers to    *)
(* the socket (agent/logwatcher.go, agent/eventqueue.go, agent/cmd_ws.go): *)
(*                                                                         *)
(*   log watchers --addEvent--> LogWatcher buffer --pumpEvents-->          *)
(*   bounded eventQueue --flushEventQueue--> session writer --> socket     *)
(*                                                                         *)
(* Goroutines: the log watchers, the pump, the session loop that flushes,  *)
(* the session's writer and its reader.  Sessions end at any moment and a  *)
(* new one is dialled.  An event is its arrival number 1, 2, 3, ...        *)
(***************************************************************************)
EXTENDS Integers, Sequences, FiniteSets, SequencesExt

CONSTANTS
    Capacity,      \* eventQueueCap
    BatchMax,      \* eventBatchMax
    Watchers,      \* how many log watchers may be inside addEvent at once
    MaxEvents,     \* bound: events ever produced
    MaxSessions    \* bound: sessions ever dialled

ASSUME QueueAssumption ==
    /\ Capacity \in Nat \ {0}
    /\ BatchMax \in Nat \ {0}
    /\ Watchers \in Nat \ {0}
    /\ MaxEvents \in Nat
    /\ MaxSessions \in Nat

VARIABLES
    produced,     \* number of addEvent calls that appended
    buffer,       \* LogWatcher.events
    signalling,   \* addEvent calls that appended and have not signalled yet
    flushCh,      \* the one-slot signal channel holds a signal
    pump,         \* what pumpEvents does: "wait", "drain" or "push"
    drained,      \* the events DrainEvents returned, not pushed yet
    items,        \* eventQueue.items[head:], oldest first
    dropped,      \* eventQueue.dropped
    session,      \* "down", "up" or "closing" (the deferred teardown)
    sessionNo,    \* number of the current (or last) session
    done,         \* the session's done channel is closed
    flush,        \* where flushEventQueue is
    remaining,    \* its snapshot of the queue length, counted down
    taken,        \* the dropped count it holds
    batch,        \* the events it holds
    frame,        \* the last events frame: its events and dropped count
    out,          \* that frame waits in the outbound queue
    writer,       \* "run", "write", "result" or "exit"
    result,       \* the frame's result channel: "none", "ok", "err"
    \* History, read by no action's guard.
    written,      \* events put on the socket, each with its session
    reported,     \* sum of the dropped counts put on the socket
    confirmed,    \* sum of the dropped counts of flushes told "written"
    trimmed,      \* how many events trimLocked dropped
    lost          \* which events trimLocked dropped

watcherVars == <<produced, buffer, signalling>>
queueVars == <<items, dropped, trimmed, lost>>
flushVars == <<flush, remaining, taken, batch, confirmed>>
writerVars == <<frame, out, writer, result, written, reported>>
sessionVars == <<session, sessionNo, done>>
vars == <<watcherVars, flushCh, pump, drained, queueVars, flushVars,
          writerVars, sessionVars>>

----------------------------------------------------------------------------
(* eventQueue: Push, Requeue and PopBatch on the live part of the slice.    *)

\* Fault: the oldest event over the limit stays.
OverLate(s) == IF Len(s) > Capacity + 1 THEN Len(s) - Capacity ELSE 0

\* How many events trimLocked must drop.
Over(s) == IF Len(s) > Capacity THEN Len(s) - Capacity ELSE 0

\* Append or prepend, then trimLocked: the oldest beyond the capacity go.
trimLocked(s) ==
    /\ items' = SubSeq(s, Over(s) + 1, Len(s))
    /\ trimmed' = trimmed + Over(s)
    /\ lost' = lost \union { s[i] : i \in 1 .. Over(s) }

\* The bound's last session does not fail, so that delivery can be judged.
MayFail == sessionNo < MaxSessions

BatchLen == IF Len(items) > BatchMax THEN BatchMax ELSE Len(items)

\* What PopBatch leaves in the queue.
AfterPop == SubSeq(items, BatchLen + 1, Len(items))

\* Faults: the failed batch is forgotten; it returns at the back.
MergedForgets == items
MergedBack == items \o batch

\* Requeue's merged slice: the batch is older than everything queued since.
Merged == batch \o items

\* Fault: an empty flush forgets the count it took.
KeptForgets == dropped

\* Requeue adds the taken count back.
Kept == dropped + taken

RemainingAfter == remaining - BatchLen

----------------------------------------------------------------------------
Init ==
    /\ produced = 0 /\ buffer = <<>> /\ signalling = 0
    /\ flushCh = FALSE /\ pump = "wait" /\ drained = <<>>
    /\ items = <<>> /\ dropped = 0 /\ trimmed = 0 /\ lost = {}
    /\ session = "down" /\ sessionNo = 0 /\ done = TRUE
    /\ flush = "idle" /\ remaining = 0 /\ taken = 0 /\ batch = <<>>
    /\ confirmed = 0
    /\ frame = [events |-> <<>>, dropped |-> 0]
    /\ out = FALSE /\ writer = "exit" /\ result = "none"
    /\ written = <<>> /\ reported = 0

----------------------------------------------------------------------------
(* Log watchers and pump.                                                   *)

\* addEvent, under lw.mu: append the event.
AddEvent ==
    /\ produced < MaxEvents /\ signalling < Watchers
    /\ produced' = produced + 1
    /\ buffer' = Append(buffer, produced + 1)
    /\ signalling' = signalling + 1
    /\ UNCHANGED <<flushCh, pump, drained, queueVars, flushVars, writerVars, sessionVars>>

\* addEvent, after the unlock: the non-blocking send into the one-slot channel.
Signal ==
    /\ signalling > 0
    /\ signalling' = signalling - 1
    /\ flushCh' = TRUE
    /\ UNCHANGED <<produced, buffer, pump, drained, queueVars, flushVars,
                   writerVars, sessionVars>>

\* pumpEvents receives a signal ...
PumpReceive ==
    /\ pump = "wait" /\ flushCh
    /\ flushCh' = FALSE
    /\ pump' = "drain"
    /\ UNCHANGED <<watcherVars, drained, queueVars, flushVars, writerVars, sessionVars>>

\* ... drains the LogWatcher ...
DrainEvents ==
    /\ pump = "drain"
    /\ drained' = buffer
    /\ buffer' = <<>>
    /\ pump' = "push"
    /\ UNCHANGED <<produced, signalling, flushCh, queueVars, flushVars,
                   writerVars, sessionVars>>

\* Fault: a signal that came in since the drain is discarded.
PushClearsSignal ==
    /\ pump = "push"
    /\ trimLocked(items \o drained)
    /\ dropped' = dropped + Over(items \o drained)
    /\ drained' = <<>>
    /\ flushCh' = FALSE
    /\ pump' = "wait"
    /\ UNCHANGED <<watcherVars, flushVars, writerVars, sessionVars>>

\* ... and pushes what it got (nothing when an earlier drain took it).
Push ==
    /\ pump = "push"
    /\ trimLocked(items \o drained)
    /\ dropped' = dropped + Over(items \o drained)
    /\ drained' = <<>>
    /\ pump' = "wait"
    /\ UNCHANGED <<watcherVars, flushCh, flushVars, writerVars, sessionVars>>

----------------------------------------------------------------------------
(* flushEventQueue, run by the session loop on its ticker.                  *)

\* remaining := q.Len()
FlushStart ==
    /\ session = "up" /\ flush = "idle"
    /\ remaining' = Len(items)
    /\ flush' = "take"
    /\ UNCHANGED <<watcherVars, flushCh, pump, drained, queueVars, taken, batch,
                   confirmed, writerVars, sessionVars>>

\* dropped := q.TakeDropped()
TakeDropped ==
    /\ flush = "take"
    /\ taken' = dropped
    /\ dropped' = 0
    /\ flush' = "pop"
    /\ UNCHANGED <<watcherVars, flushCh, pump, drained, items, trimmed, lost, remaining,
                   batch, confirmed, writerVars, sessionVars>>

\* batch = q.PopBatch(eventBatchMax), when something remains of the snapshot.
PopBatch ==
    /\ flush = "pop" /\ remaining > 0 /\ items # <<>>
    /\ batch' = SubSeq(items, 1, BatchLen)
    /\ items' = AfterPop
    /\ remaining' = RemainingAfter
    /\ flush' = "send"
    /\ UNCHANGED <<watcherVars, flushCh, pump, drained, dropped, trimmed, lost, taken,
                   confirmed, writerVars, sessionVars>>

\* Nothing to carry the count: q.Requeue(nil, dropped), and the flush is over.
FlushEnd ==
    /\ flush = "pop" /\ (remaining <= 0 \/ items = <<>>)
    /\ dropped' = Kept
    /\ taken' = 0
    /\ flush' = "idle"
    /\ UNCHANGED <<watcherVars, flushCh, pump, drained, items, trimmed, lost, remaining,
                   batch, confirmed, writerVars, sessionVars>>

\* sendSync: the frame enters the outbound queue of a live session ...
SendQueued ==
    /\ flush = "send" /\ ~done
    /\ frame' = [events |-> batch, dropped |-> taken]
    /\ out' = TRUE
    /\ result' = "none"
    /\ flush' = "wait"
    /\ UNCHANGED <<watcherVars, flushCh, pump, drained, queueVars, remaining, taken,
                   batch, confirmed, writer, written, reported, sessionVars>>

\* ... or is refused: the session is over ...
SendRefused ==
    /\ flush = "send" /\ done
    /\ flush' = "requeue"
    /\ UNCHANGED <<watcherVars, flushCh, pump, drained, queueVars, remaining, taken,
                   batch, confirmed, writerVars, sessionVars>>

\* ... or cmdWSSendTimeout passed without room, which ends the session.
SendTimeout ==
    /\ flush = "send" /\ ~done /\ MayFail
    /\ done' = TRUE
    /\ flush' = "requeue"
    /\ UNCHANGED <<watcherVars, flushCh, pump, drained, queueVars, remaining, taken,
                   batch, confirmed, writerVars, session, sessionNo>>

\* The frame was written: the loop goes on.
SendWritten ==
    /\ flush = "wait" /\ result = "ok"
    /\ confirmed' = confirmed + taken
    /\ taken' = 0
    /\ batch' = <<>>
    /\ flush' = "take"
    /\ UNCHANGED <<watcherVars, flushCh, pump, drained, queueVars, remaining,
                   writerVars, sessionVars>>

\* The write failed, or the session ended and no result is there.
SendFailed ==
    /\ flush = "wait" /\ (result = "err" \/ (done /\ result = "none"))
    /\ flush' = "requeue"
    /\ UNCHANGED <<watcherVars, flushCh, pump, drained, queueVars, remaining, taken,
                   batch, confirmed, writerVars, sessionVars>>

\* q.Requeue(batch, dropped); the error ends the session (deferred s.fail).
Requeue ==
    /\ flush = "requeue"
    /\ trimLocked(Merged)
    /\ dropped' = Kept + Over(Merged)
    /\ taken' = 0
    /\ batch' = <<>>
    /\ flush' = "idle"
    /\ session' = "closing"
    /\ done' = TRUE
    /\ UNCHANGED <<watcherVars, flushCh, pump, drained, remaining, confirmed,
                   writerVars, sessionNo>>

----------------------------------------------------------------------------
(* writeLoop: the only goroutine writing on the connection.                 *)

\* Both cases of the select may be ready: the frame can win over done.
WriterTakes ==
    /\ writer = "run" /\ out
    /\ out' = FALSE
    /\ writer' = "write"
    /\ UNCHANGED <<watcherVars, flushCh, pump, drained, queueVars, flushVars, frame, result,
                   written, reported, sessionVars>>

\* WriteFrame succeeds; the flush has not been told yet.
WriteFrame ==
    /\ writer = "write"
    /\ written' = written \o [i \in 1 .. Len(frame.events) |->
                                [event |-> frame.events[i], session |-> sessionNo]]
    /\ reported' = reported + frame.dropped
    /\ writer' = "result"
    /\ UNCHANGED <<watcherVars, flushCh, pump, drained, queueVars, flushVars, out, frame,
                   result, sessionVars>>

\* f.result <- nil
WriterResult ==
    /\ writer = "result"
    /\ result' = "ok"
    /\ writer' = "run"
    /\ UNCHANGED <<watcherVars, flushCh, pump, drained, queueVars, flushVars, out, frame,
                   written, reported, sessionVars>>

\* WriteFrame fails: the error is the result, the session fails, the loop ends.
WriterFails ==
    /\ writer = "write" /\ MayFail
    /\ result' = "err"
    /\ done' = TRUE
    /\ writer' = "exit"
    /\ UNCHANGED <<watcherVars, flushCh, pump, drained, queueVars, flushVars, out, frame,
                   written, reported, session, sessionNo>>

WriterStops ==
    /\ writer = "run" /\ done
    /\ writer' = "exit"
    /\ UNCHANGED <<watcherVars, flushCh, pump, drained, queueVars, flushVars, out, frame,
                   result, written, reported, sessionVars>>

----------------------------------------------------------------------------
(* Sessions.                                                                *)

\* runCmdWS dials again; the session's channels and its writer are new.
Connect ==
    /\ session = "down" /\ sessionNo < MaxSessions
    /\ session' = "up"
    /\ sessionNo' = sessionNo + 1
    /\ done' = FALSE
    /\ out' = FALSE
    /\ writer' = "run"
    /\ UNCHANGED <<watcherVars, flushCh, pump, drained, queueVars, flushVars, frame, result,
                   written, reported>>

\* The reader ends the session (read error, close frame, ping not answered),
\* or another frame's write does.
SessionFails ==
    /\ session = "up" /\ ~done /\ MayFail
    /\ done' = TRUE
    /\ UNCHANGED <<watcherVars, flushCh, pump, drained, queueVars, flushVars, writerVars,
                   session, sessionNo>>

\* The session loop, between two flushes, sees the closed done channel.
SessionReturns ==
    /\ session = "up" /\ flush = "idle" /\ done
    /\ session' = "closing"
    /\ UNCHANGED <<watcherVars, flushCh, pump, drained, queueVars, flushVars, writerVars,
                   sessionNo, done>>

\* Deferred teardown: it waits for the writer before the next dial can start.
Teardown ==
    /\ session = "closing" /\ writer = "exit"
    /\ session' = "down"
    /\ UNCHANGED <<watcherVars, flushCh, pump, drained, queueVars, flushVars, writerVars,
                   sessionNo, done>>

----------------------------------------------------------------------------
Flush == \/ FlushStart \/ TakeDropped \/ PopBatch \/ FlushEnd
         \/ SendQueued \/ SendRefused \/ SendWritten \/ SendFailed \/ Requeue

Next ==
    \/ AddEvent \/ Signal
    \/ PumpReceive \/ DrainEvents \/ Push
    \/ Flush \/ SendTimeout
    \/ WriterTakes \/ WriteFrame \/ WriterResult \/ WriterFails \/ WriterStops
    \/ Connect \/ SessionFails \/ SessionReturns \/ Teardown

Spec == Init /\ [][Next]_vars

(***************************************************************************)
(* Fairness: every goroutine that can run does run.  The tickers keep      *)
(* starting flushes, and a select with a closed done channel among its     *)
(* ready cases picks it eventually.                                        *)
(***************************************************************************)
Fairness ==
    /\ WF_vars(Signal)
    /\ WF_vars(PumpReceive \/ DrainEvents \/ Push)
    /\ WF_vars(Flush)
    /\ WF_vars(WriterTakes \/ WriteFrame \/ WriterResult)
    /\ SF_vars(WriterStops) /\ SF_vars(SessionReturns)
    /\ WF_vars(Connect) /\ WF_vars(Teardown)

FairSpec == Spec /\ Fairness

----------------------------------------------------------------------------
(* Properties.                                                              *)

EventSeq == Seq(1 .. produced)

\* Every variable keeps its type; the queue never exceeds its capacity and a
\* batch never exceeds eventBatchMax (newEventQueue, PopBatch).
TypeOK ==
    /\ produced \in Nat /\ signalling \in Nat
    /\ buffer \in EventSeq /\ drained \in EventSeq
    /\ items \in EventSeq /\ batch \in EventSeq
    /\ Len(items) <= Capacity /\ Len(batch) <= BatchMax
    /\ flushCh \in BOOLEAN /\ done \in BOOLEAN /\ out \in BOOLEAN
    /\ pump \in {"wait", "drain", "push"}
    /\ dropped \in Nat /\ taken \in Nat /\ trimmed \in Nat
    /\ reported \in Nat /\ confirmed \in Nat /\ remaining \in Int
    /\ lost \subseteq 1 .. produced
    /\ session \in {"down", "up", "closing"} /\ sessionNo \in Nat
    /\ flush \in {"idle", "take", "pop", "send", "wait", "requeue"}
    /\ frame \in [events : EventSeq, dropped : Nat]
    /\ writer \in {"run", "write", "result", "exit"}
    /\ result \in {"none", "ok", "err"}
    /\ written \in Seq([event : 1 .. produced, session : Nat])

WrittenEvents == { written[i].event : i \in 1 .. Len(written) }

\* No event disappears unseen: whatever the interleaving of watchers, pump,
\* flush, writer and failing sessions, an event that addEvent appended is on
\* its way, was written, or was dropped by trimLocked.
NoSilentLoss ==
    \A e \in 1 .. produced :
        e \in ToSet(buffer) \union ToSet(drained) \union ToSet(items)
              \union ToSet(batch) \union lost \union WrittenEvents

\* Each drop is counted once and its count is in exactly one place: the queue,
\* the flush that took it, or a frame its flush was told is written.  The
\* server may be told a count twice (a frame written just as its session
\* ended), never too little.
DropAccounting ==
    /\ trimmed = dropped + taken + confirmed
    /\ confirmed <= reported
    /\ flush = "wait" /\ (writer = "result" \/ result = "ok")
          => confirmed + taken <= reported

\* Flush, writer and session agree: outside sendSync a live session's writer
\* holds no events frame; while sendSync waits, the frame is the batch and the
\* count in hand and is in one place only; the next dial finds no old writer.
Handshake ==
    /\ session # "up" => done /\ flush = "idle"
    /\ session = "down" => writer = "exit"
    /\ flush = "requeue" => done
    /\ flush \in {"idle", "take"} => taken = 0
    /\ flush \in {"idle", "take", "pop"} => batch = <<>>
    /\ ~done => writer # "exit"
    /\ ~done /\ flush # "wait" => writer = "run" /\ ~out
    /\ flush = "wait" =>
          /\ frame = [events |-> batch, dropped |-> taken]
          /\ out => result = "none" /\ writer \in {"run", "exit"}
          /\ writer \in {"write", "result"} => result = "none"
          /\ result = "err" => done

\* What is on its way is in arrival order, the batch in hand first: a failed
\* batch goes back in front of everything queued since.
InArrivalOrder ==
    LET way == batch \o items \o drained \o buffer
    IN  \A i, j \in 1 .. Len(way) : i < j => way[i] < way[j]

\* Only the oldest are dropped: no event still queued is older than a dropped
\* one, also when a failed batch returns to a queue that overflowed meanwhile
\* ("it is the first to go", eventqueue.go).
DropsOldest ==
    \A e \in lost : \A i \in 1 .. Len(items) : e < items[i]

\* The socket sees events in arrival order, except events it has seen before:
\* the teardown waits for the writer, so no frame of an old session can follow
\* a frame of the next one.
FirstDeliveryInOrder ==
    \A j \in 1 .. Len(written) :
        \/ \E i \in 1 .. j - 1 : written[i].event = written[j].event
        \/ \A i \in 1 .. j - 1 : written[i].event < written[j].event

\* An event is written again only in a later session: while a session lives,
\* its flush requeues nothing.
NoDuplicateInSession ==
    \A i, j \in 1 .. Len(written) :
        i < j /\ written[i].event = written[j].event
            => written[i].session < written[j].session

\* Order is kept from the watchers to the socket, through overflow, failed
\* batches and new sessions: on the way, in what is dropped, in what is first
\* delivered, and in what is delivered again.
InOrder ==
    InArrivalOrder /\ DropsOldest /\ FirstDeliveryInOrder /\ NoDuplicateInSession

\* Every event is eventually written or dropped once sessions stop failing:
\* no signal is lost between addEvent and the pump, and no batch stays stuck
\* between the flush and the writer.
EveryEventSettles ==
    \A e \in 1 .. MaxEvents :
        (produced >= e) ~> (e \in lost \/ e \in WrittenEvents)

=============================================================================
