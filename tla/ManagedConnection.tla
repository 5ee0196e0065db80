------------------------- MODULE ManagedConnection --------------------------
(***************************************************************************)
(* _ManagedConnection: one websocket connection as three asyncio tasks (the*)
(* run task, and per socket a reader and a processor) around a bounded     *)
(* queue, and the tasks that close it.                                     *)
(*                                                                         *)
(* A step is what one task does between two awaits. Cancelling a task that *)
(* waits on a socket, a queue or a callback ends it at once; cancelling    *)
(* the run task sets runCancel, which its next await raises.               *)
(*                                                                         *)
(* Left out: the stale monitor and the content of frames (MarketFeed),     *)
(* control frames, health times, log events. The heartbeat task appears    *)
(* only as an exception that its await may raise while a socket is torn    *)
(* down. on_connect, the initial payload and on_reconnect are one await.   *)
(***************************************************************************)
EXTENDS Naturals, Sequences, FiniteSets, Functions

CONSTANTS
    MaxFrames,            \* frames the server sends over the whole run
    QueueSize,            \* _message_queue_maxsize
    OverflowPolicies,     \* of "drop_oldest", "disconnect" and "reconnect"
    ErrorPolicy,          \* of process_event: "disconnect" or "log"
    GracefulClosers,      \* tasks that call graceful_close()
    ForceClosers,         \* tasks that call close() of a non-user channel
    CallbackMayClose      \* process_event may call close() of a non-user channel

Closers == GracefulClosers \cup ForceClosers

ASSUME ConstantsAssumption ==
    /\ MaxFrames \in Nat /\ QueueSize \in Nat \ {0}
    /\ OverflowPolicies \subseteq {"drop_oldest", "disconnect", "reconnect"}
    /\ ErrorPolicy \in {"disconnect", "log"}
    /\ CallbackMayClose \in BOOLEAN

Sentinel == 0
Frames == 1..MaxFrames

VARIABLES
    run,         \* await the run task is at
    exc,         \* exception that leaves _run_connected
    runCancel,   \* run_task.cancel() was called and not raised yet
    stop,        \* _stop_event
    socket,      \* "none", "open", "closed" cleanly, or "broken"
    reader,      \* _read_messages
    proc,        \* _process_message_queue
    queue,       \* _message_queue
    next,        \* the next frame the server sends
    session,     \* frames put in the queue since the last reset
    delivered,   \* frames handed to process_event, in order
    counted,     \* frames in _dropped_message_count, logged when dropped
    policy,      \* message_queue_overflow_policy, given when it was opened
    closer       \* what each closing task is at

taskVars == <<run, exc, runCancel, stop, socket, reader, proc>>
dataVars == <<queue, next, session, delivered, counted, policy>>
vars == <<taskVars, dataVars, closer>>

RunStates == {"connecting", "opening", "watching", "closing", "await_reader",
              "await_processor", "reaping", "leaving", "disconnecting", "backoff", "done"}
Raised == {"cancelled", "fatal", "reconnect", "lost"}
ReaderFailed == reader \in {"fatal", "reconnect", "lost"}
ProcessorActive == proc \in {"getting", "delivering", "joining"}

-----------------------------------------------------------------------------
Init ==
    /\ run = "connecting" /\ exc = "none" /\ runCancel = FALSE /\ stop = FALSE
    /\ socket = "none" /\ reader = "none" /\ proc = "none"
    /\ queue = <<>> /\ next = 1 /\ session = {} /\ delivered = <<>> /\ counted = {}
    /\ policy \in OverflowPolicies
    /\ closer = [c \in Closers |-> "idle"]

-----------------------------------------------------------------------------
(* run(): connect, run the tasks of the socket, tear down, back off.       *)

ConnectOk ==
    /\ run = "connecting" /\ ~runCancel
    /\ run' = "opening" /\ socket' = "open" /\ exc' = "none"
    /\ UNCHANGED <<runCancel, stop, reader, proc, dataVars, closer>>

\* No socket, no disconnect callback.
ConnectFails ==
    /\ run = "connecting" /\ ~runCancel
    /\ run' = IF stop THEN "done" ELSE "backoff"
    /\ exc' = "lost"
    /\ UNCHANGED <<runCancel, stop, socket, reader, proc, dataVars, closer>>

Opened ==
    /\ run = "opening" /\ ~runCancel
    /\ run' = "watching" /\ reader' = "reading" /\ proc' = "getting"
    /\ UNCHANGED <<exc, runCancel, stop, socket, dataVars, closer>>

\* websocket.send raises: _run_connected is never entered.
OpeningFails ==
    /\ run = "opening" /\ ~runCancel /\ socket # "open"
    /\ run' = "leaving" /\ exc' = "lost"
    /\ UNCHANGED <<runCancel, stop, socket, reader, proc, dataVars, closer>>

\* Mutants of PutSentinel: no bound, an uncounted drop, the sentinel in front,
\* no sentinel when the queue is full.
PutSentinelUnbounded == queue' = Append(queue, Sentinel) /\ counted' = counted
PutSentinelUncounted ==
    /\ queue' = Append(IF Len(queue) < QueueSize THEN queue ELSE Tail(queue), Sentinel)
    /\ counted' = counted
PutSentinelAhead == queue' = <<Sentinel>> \o queue /\ counted' = counted
PutSentinelIfRoom ==
    /\ queue' = IF Len(queue) < QueueSize THEN Append(queue, Sentinel) ELSE queue
    /\ counted' = counted

\* _enqueue_queue_sentinel: make room by dropping the oldest.
PutSentinel ==
    IF Len(queue) < QueueSize
    THEN queue' = Append(queue, Sentinel) /\ counted' = counted
    ELSE /\ queue' = Append(Tail(queue), Sentinel)
         /\ counted' = counted \cup ({Head(queue)} \ {Sentinel})

\* The finally of _run_connected, entered with e in flight. What a failed
\* reader, then a failed processor, then a failed heartbeat raises when it is
\* awaited here replaces e, and skips the awaits that follow. A processor
\* whose callback waits for this task takes no cancellation: it passes it on,
\* and `await reader_task` swallows it unless the reader has failed. The run
\* task then waits for that processor ("reaping") and nothing wakes it.
EndConnected(e) ==
    /\ IF ProcessorActive THEN PutSentinel ELSE UNCHANGED <<queue, counted>>
    /\ reader' = IF reader = "reading" THEN "cancelled" ELSE reader
    /\ proc' = IF proc \in {"getting", "delivering"} THEN "cancelled" ELSE proc
    /\ runCancel' = (proc = "joining" /\ ReaderFailed)
    /\ IF proc = "joining" /\ ~ReaderFailed
       THEN run' = "reaping" /\ exc' = e
       ELSE /\ run' = "leaving"
            /\ \/ exc' = IF ReaderFailed THEN reader
                         ELSE IF proc = "failed" THEN "fatal" ELSE e
               \/ ~ReaderFailed /\ proc # "failed" /\ socket # "open" /\ exc' = "lost"

ProcessorDone ==
    /\ run = "watching" /\ ~runCancel
    /\ ~ProcessorActive
    /\ run' = "closing"
    /\ UNCHANGED <<exc, runCancel, stop, socket, reader, proc, dataVars, closer>>

\* websocket.close(): the peer answers the closing handshake, or does not.
CloseSocket ==
    /\ socket' \in IF socket = "open" THEN {"closed", "broken"} ELSE {socket}

\* A failed processor raises once the socket is closed; a reader that the
\* close has failed replaces the exception (EndConnected).
SocketClosed ==
    /\ run = "closing" /\ ~runCancel
    /\ CloseSocket
    /\ IF proc = "failed"
       THEN EndConnected("fatal")
       ELSE /\ run' = "await_reader"
            /\ UNCHANGED <<exc, runCancel, reader, proc, queue, counted>>
    /\ UNCHANGED <<stop, next, session, delivered, policy, closer>>

ReaderAwaited ==
    /\ run = "await_reader" /\ ~runCancel /\ reader # "reading"
    /\ EndConnected("none")
    /\ UNCHANGED <<stop, socket, next, session, delivered, policy, closer>>

ReaderDone ==
    /\ run = "watching" /\ ~runCancel
    /\ ProcessorActive /\ reader # "reading"
    /\ IF ReaderFailed
       THEN EndConnected("none")
       ELSE /\ PutSentinel
            /\ run' = "await_processor"
            /\ UNCHANGED <<exc, runCancel, reader, proc>>
    /\ UNCHANGED <<stop, socket, next, session, delivered, policy, closer>>

ProcessorAwaited ==
    /\ run = "await_processor" /\ ~runCancel /\ ~ProcessorActive
    /\ EndConnected("none")
    /\ UNCHANGED <<stop, socket, next, session, delivered, policy, closer>>

\* Mutant of Leave: ProcessEventError does not set _stop_event.
LeaveWithoutStop ==
    /\ run = "leaving"
    /\ exc' = IF runCancel THEN "cancelled" ELSE exc
    /\ run' = "disconnecting" /\ socket' = "none" /\ runCancel' = FALSE
    /\ UNCHANGED <<stop, reader, proc, dataVars, closer>>

\* __aexit__ closes the socket; the handlers of run() look at the exception.
Leave ==
    /\ run = "leaving"
    /\ exc' = IF runCancel THEN "cancelled" ELSE exc
    /\ run' = "disconnecting" /\ socket' = "none" /\ runCancel' = FALSE
    /\ stop' = (stop \/ exc' = "fatal")
    /\ UNCHANGED <<reader, proc, dataVars, closer>>

\* on_disconnect has returned; market books are invalidated here.
Disconnected ==
    /\ run = "disconnecting" /\ ~runCancel
    /\ run' = IF stop \/ exc = "cancelled" THEN "done" ELSE "backoff"
    /\ UNCHANGED <<exc, runCancel, stop, socket, reader, proc, dataVars, closer>>

\* The sleep is over: a new queue, and a new attempt unless told to stop.
Retry ==
    /\ run = "backoff" /\ ~runCancel
    /\ IF stop
       THEN run' = "done" /\ UNCHANGED <<queue, session, counted>>
       ELSE run' = "connecting" /\ queue' = <<>> /\ session' = {} /\ counted' = {}
    /\ UNCHANGED <<exc, runCancel, stop, socket, reader, proc, next, delivered, policy, closer>>

\* CancelledError is raised at the await the run task is at. The ones in the
\* finally of _run_connected are in EndConnected and Leave. Left out: a heartbeat
\* that had failed by itself raises its exception there (1512-1515), which then
\* replaces this one.
Cancelled ==
    /\ runCancel
    /\ \/ /\ run \in {"connecting", "disconnecting", "backoff"}
          /\ run' = "done" /\ exc' = "cancelled" /\ runCancel' = FALSE
          /\ UNCHANGED <<reader, proc, queue, counted>>
       \/ /\ run = "opening"
          /\ run' = "leaving" /\ exc' = "cancelled" /\ runCancel' = FALSE
          /\ UNCHANGED <<reader, proc, queue, counted>>
       \/ /\ run \in {"watching", "closing", "await_reader"}
          /\ EndConnected("cancelled")
       \/ /\ run = "await_processor" /\ proc # "joining"
          /\ run' = "leaving" /\ runCancel' = FALSE
          /\ exc' = IF proc = "failed" THEN "fatal" ELSE "cancelled"
          /\ proc' = IF ProcessorActive THEN "cancelled" ELSE proc
          /\ UNCHANGED <<reader, queue, counted>>
    /\ UNCHANGED <<stop, socket, next, session, delivered, policy, closer>>

RunStep ==
    \/ ConnectOk \/ ConnectFails \/ Opened \/ OpeningFails
    \/ ProcessorDone \/ SocketClosed \/ ReaderAwaited
    \/ ReaderDone \/ ProcessorAwaited
    \/ Leave \/ Disconnected \/ Retry \/ Cancelled

-----------------------------------------------------------------------------
(* _read_messages and _enqueue_message.                                    *)

\* A frame is read, from the buffer if the socket is closed already.
ReadFrame ==
    /\ reader = "reading" /\ next \in Frames
    /\ next' = next + 1
    /\ \/ /\ Len(queue) < QueueSize
          /\ queue' = Append(queue, next) /\ counted' = counted
          /\ session' = session \cup {next}
          /\ reader' = IF stop THEN "ended" ELSE "reading"
       \/ /\ Len(queue) = QueueSize /\ policy = "drop_oldest"
          /\ queue' = Append(Tail(queue), next)
          /\ counted' = counted \cup ({Head(queue)} \ {Sentinel})
          /\ session' = session \cup {next}
          /\ reader' = IF stop THEN "ended" ELSE "reading"
       \/ /\ Len(queue) = QueueSize /\ policy # "drop_oldest"
          /\ reader' = IF policy = "disconnect" THEN "fatal" ELSE "reconnect"
          /\ UNCHANGED <<queue, counted, session>>
    /\ UNCHANGED <<run, exc, runCancel, stop, socket, proc, delivered, policy, closer>>

\* The iteration over the socket stops, or raises ConnectionClosedError.
ReaderEnds ==
    /\ reader = "reading" /\ socket \in {"closed", "broken"}
    /\ reader' = IF socket = "closed" THEN "ended" ELSE "lost"
    /\ UNCHANGED <<run, exc, runCancel, stop, socket, proc, dataVars, closer>>

\* The server closes the connection, or the network drops it.
SocketEnds ==
    /\ socket = "open"
    /\ socket' \in {"closed", "broken"}
    /\ UNCHANGED <<run, exc, runCancel, stop, reader, proc, dataVars, closer>>

-----------------------------------------------------------------------------
(* _process_message_queue and the callback.                                *)

\* Mutant of Take: the item stays in the queue.
TakeAndKeep ==
    /\ proc = "getting" /\ queue # <<>>
    /\ proc' = "delivering" /\ delivered' = Append(delivered, Head(queue))
    /\ UNCHANGED <<run, exc, runCancel, stop, socket, reader, queue, next, session, counted, policy, closer>>

Take ==
    /\ proc = "getting" /\ queue # <<>>
    /\ queue' = Tail(queue)
    /\ IF Head(queue) = Sentinel
       THEN proc' = "ended" /\ UNCHANGED delivered
       ELSE proc' = "delivering" /\ delivered' = Append(delivered, Head(queue))
    /\ UNCHANGED <<run, exc, runCancel, stop, socket, reader, next, session, counted, policy, closer>>

\* The callback returns, or raises and the policy is to log it.
CallbackReturns ==
    /\ proc = "delivering"
    /\ proc' = IF stop THEN "ended" ELSE "getting"
    /\ UNCHANGED <<run, exc, runCancel, stop, socket, reader, dataVars, closer>>

CallbackFails ==
    /\ proc = "delivering" /\ ErrorPolicy = "disconnect"
    /\ proc' = "failed"
    /\ UNCHANGED <<run, exc, runCancel, stop, socket, reader, dataVars, closer>>

\* The callback awaits close(): _wait_for_run_task times out at once, cancels
\* the run task and awaits it, from inside the processor task.
CallbackCloses ==
    /\ CallbackMayClose /\ proc = "delivering" /\ run # "done"
    /\ proc' = "joining" /\ stop' = TRUE /\ runCancel' = TRUE
    /\ UNCHANGED <<run, exc, socket, reader, dataVars, closer>>

CallbackJoined ==
    /\ proc = "joining" /\ run = "done"
    /\ proc' = "ended"
    /\ UNCHANGED <<run, exc, runCancel, stop, socket, reader, dataVars, closer>>

ProcessorStep == Take \/ CallbackReturns \/ CallbackFails \/ CallbackCloses \/ CallbackJoined

-----------------------------------------------------------------------------
(* graceful_close and _force_close, from tasks of their own.               *)

\* _wait_for_run_task returns at once when run() has ended.
Awaiting == IF run = "done" THEN "returned" ELSE "waiting"

StartGraceful(c) ==
    /\ c \in GracefulClosers /\ closer[c] = "idle"
    /\ stop' = TRUE
    /\ closer' = [closer EXCEPT ![c] = IF socket = "none" THEN Awaiting ELSE "closing"]
    /\ UNCHANGED <<run, exc, runCancel, socket, reader, proc, dataVars>>

\* wait_for(websocket.close()): done, or timed out with the socket as it was.
CloserClosed(c) ==
    /\ closer[c] = "closing"
    /\ CloseSocket \/ UNCHANGED socket
    /\ closer' = [closer EXCEPT ![c] = Awaiting]
    /\ UNCHANGED <<run, exc, runCancel, stop, reader, proc, dataVars>>

\* The shield of a cancelled run task raises CancelledError in the closer.
Waited(c) ==
    /\ closer[c] = "waiting" /\ run = "done"
    /\ closer' = [closer EXCEPT ![c] = IF exc = "cancelled" THEN "raised" ELSE "returned"]
    /\ UNCHANGED <<taskVars, dataVars>>

\* Mutants of WaitTimesOut: the closer gives up; it forgets to cancel.
WaitGivesUp(c) ==
    /\ closer[c] = "waiting" /\ run # "done"
    /\ runCancel' = TRUE
    /\ closer' = [closer EXCEPT ![c] = "returned"]
    /\ UNCHANGED <<run, exc, stop, socket, reader, proc, dataVars>>

WaitWithoutCancel(c) ==
    /\ closer[c] = "waiting" /\ run # "done"
    /\ closer' = [closer EXCEPT ![c] = "joining"]
    /\ UNCHANGED <<taskVars, dataVars>>

WaitTimesOut(c) ==
    /\ closer[c] = "waiting" /\ run # "done"
    /\ runCancel' = TRUE
    /\ closer' = [closer EXCEPT ![c] = "joining"]
    /\ UNCHANGED <<run, exc, stop, socket, reader, proc, dataVars>>

\* _wait_for_run_task with a timeout of zero.
StartForce(c) ==
    /\ c \in ForceClosers /\ closer[c] = "idle"
    /\ stop' = TRUE
    /\ IF run = "done"
       THEN closer' = [closer EXCEPT ![c] = "returned"] /\ UNCHANGED runCancel
       ELSE closer' = [closer EXCEPT ![c] = "joining"] /\ runCancel' = TRUE
    /\ UNCHANGED <<run, exc, socket, reader, proc, dataVars>>

Joined(c) ==
    /\ closer[c] = "joining" /\ run = "done"
    /\ closer' = [closer EXCEPT ![c] = "returned"]
    /\ UNCHANGED <<taskVars, dataVars>>

CloserWaits(c) == CloserClosed(c) \/ Waited(c) \/ WaitTimesOut(c) \/ Joined(c)

Next ==
    \/ RunStep \/ ReadFrame \/ ReaderEnds \/ SocketEnds \/ ProcessorStep
    \/ \E c \in Closers : StartGraceful(c) \/ StartForce(c) \/ CloserWaits(c)

Spec == Init /\ [][Next]_vars

\* Tasks that are ready run, and waits with a timeout end. Nothing is assumed
\* of process_event here, nor of the server.
TaskFairness ==
    /\ WF_vars(RunStep) /\ WF_vars(ReaderEnds) /\ WF_vars(Take) /\ WF_vars(CallbackJoined)
    /\ \A c \in Closers : WF_vars(CloserWaits(c))

FairSpec == Spec /\ TaskFairness

\* Callbacks return, and attempts to connect do not fail for ever.
Service == WF_vars(CallbackReturns) /\ SF_vars(ConnectOk) /\ SF_vars(Opened)

ServiceSpec == FairSpec /\ Service

-----------------------------------------------------------------------------
\* Every variable has its type, and the queue its bound.
TypeOK ==
    /\ run \in RunStates
    /\ exc \in {"none"} \cup Raised
    /\ runCancel \in BOOLEAN /\ stop \in BOOLEAN
    /\ socket \in {"none", "open", "closed", "broken"}
    /\ reader \in {"none", "reading", "ended", "cancelled", "fatal", "reconnect", "lost"}
    /\ proc \in {"none", "getting", "delivering", "joining", "ended", "failed", "cancelled"}
    /\ queue \in Seq(Frames \cup {Sentinel}) /\ Len(queue) <= QueueSize
    /\ next \in 1..(MaxFrames + 1)
    /\ session \subseteq Frames /\ counted \subseteq Frames
    /\ delivered \in Seq(Frames) /\ policy \in OverflowPolicies
    /\ closer \in [Closers -> {"idle", "closing", "waiting", "joining", "returned", "raised"}]

\* The callback gets frames in the order the server sent them and none twice,
\* across drops, reconnects and the queue reset of run().
InOrderAndOnce ==
    \A i, j \in DOMAIN delivered : i < j => delivered[i] < delivered[j]

\* While a socket is served, a frame that was queued is waiting, was handed to
\* the callback, or is in _dropped_message_count.
NothingUnaccounted ==
    run \in {"watching", "await_processor"} =>
        session \subseteq Range(queue) \cup Range(delivered) \cup counted

\* When a closing task goes on, by a return or by the CancelledError of the run
\* task, the connection is over: no task of it reads or is about to call
\* process_event, and it will not reconnect.
ClosedMeansOver ==
    (\E c \in Closers : closer[c] \in {"returned", "raised"}) =>
        run = "done" /\ reader # "reading" /\ proc \notin {"getting", "delivering"}

\* A failing callback under the "disconnect" policy ends the connection for
\* good, unless the reader failed too: its exception then replaces
\* ProcessEventError, and run() reconnects as after any lost socket.
FailureStopsUnlessReaderFailed ==
    proc = "failed" /\ run \in {"backoff", "connecting"} => exc \in {"lost", "reconnect"}

\* A task that closes the connection always goes on, even if process_event
\* never returns and the server never answers, unless process_event is itself
\* waiting in close().
CloseGoesOn ==
    \A c \in Closers :
        closer[c] # "idle" ~> closer[c] \in {"returned", "raised"} \/ proc = "joining"

\* With callbacks that return and a server that can be reached, a lost socket is
\* followed by a new one or by the end of the connection: run() never waits for
\* a processor that has no sentinel. Again unless process_event calls close().
LostSocketIsReplaced ==
    Service =>
        (socket \in {"closed", "broken"} ~>
            run = "done" \/ (run = "opening" /\ socket = "open") \/ proc = "joining")

-----------------------------------------------------------------------------
(* The connection implements FrameDelivery.                                *)

\* A session that nobody has cut short.
Undisturbed == ~stop /\ ~runCancel /\ ~ReaderFailed /\ proc # "failed"

Phase ==
    IF run = "done" THEN "over"
    ELSE IF run \in {"connecting", "opening", "leaving", "disconnecting", "backoff"} THEN "off"
    ELSE IF Undisturbed THEN "serving" ELSE "cut"

\* Nothing is put in the queue behind a sentinel.
FramesOf(q) ==
    IF q # <<>> /\ q[Len(q)] = Sentinel THEN SubSeq(q, 1, Len(q) - 1) ELSE q

Waiting == IF Phase \in {"off", "over"} THEN <<>> ELSE FramesOf(queue)

Dropped == IF Phase = "serving" THEN counted ELSE {}

Delivery == INSTANCE FrameDelivery WITH
    phase <- Phase, waiting <- Waiting, dropped <- Dropped

\* The queue, its sentinel, its overflow policies, the order in which run() ends
\* its tasks, closes and reconnects keep the promise of FrameDelivery: in
\* particular a session that ends undisturbed is drained.
KeepsDeliveryPromise == Delivery!Spec

-----------------------------------------------------------------------------
(* What the README says and the code does not do.                          *)

\* README.md:237: graceful_close() "drains queued callback events before
\* returning". Stated of a close that no timeout, failure or other task cut
\* short, and of the frames queued before it: the reader takes at most one more
\* once it is told to stop, so every frame but the last was there.
GracefulCloseDrains ==
    \A c \in GracefulClosers :
        closer[c] = "returned" /\ exc = "none" =>
            \A f \in session : f + 1 \in session => f \in Range(delivered)

\* README.md:236: connection.close() of a market socket "stops quickly": a close
\* from the callback, which may be async, ends the connection.
CloseFromCallbackEnds == proc = "joining" ~> run = "done"
=============================================================================
