------------------------ MODULE SyncWebsocketClient -------------------------
(***************************************************************************)
(* PolymarketWebsocketsClient: threads that hand the calls of              *)
(* WebsocketClient to the event loop of another thread (_EventLoopThread)  *)
(* and wait for a future, and stop(), which ends that loop.                *)
(*                                                                         *)
(* Each call of WebsocketClient is made by a thread of its own. With api = *)
(* "async" there are no threads: the calls are made on the caller's loop,  *)
(* and the caller may cancel them.                                         *)
(***************************************************************************)
EXTENDS WebsocketClient

CONSTANTS
    Apis,                \* of "async" and "sync"
    ThreadCalls,         \* calls that threads make; those of "async" are all
    CallbackMayAsk       \* a callback may call a method of a sync handle

Calls == Conns \cup Closers

ASSUME ApisAssumption ==
    /\ Apis \subseteq {"async", "sync"} /\ ThreadCalls \subseteq Calls
    /\ CallbackMayAsk \in BOOLEAN

VARIABLES
    api,             \* the client in use
    loop,            \* the loop's thread
    stopping,        \* _stopping
    queued,          \* calls handed to the loop and not begun
    caller,          \* what the thread of each call is at
    cancelled,       \* calls whose task the loop has cancelled
    late             \* calls handed to the loop after stop() was called

threadVars == <<api, loop, stopping, queued, caller, cancelled, late>>
vars == <<asyncVars, threadVars>>

Init ==
    /\ AsyncInit
    /\ api \in Apis
    /\ loop = "running" /\ stopping = FALSE
    /\ queued = {} /\ cancelled = {} /\ late = {}
    /\ caller = [x \in Calls |-> "idle"]

LoopRuns == loop \in {"running", "stopping", "draining"}

\* The coroutine of a call has ended in a result, or in an exception.
Result(x) == IF x \in Conns THEN opener[x] = "returned" ELSE closer[x].pc = "returned"
Raised(x) == IF x \in Conns THEN opener[x] \in {"raised", "cancelled"} ELSE closer[x].pc = "cancelled"
InProgress(x) == IF x \in Conns THEN opener[x] \notin {"idle", "returned", "raised", "cancelled"}
                 ELSE closer[x].pc = "closing"

Start(x) == IF x \in Conns THEN Open(x) ELSE StartClose(x)
Cancel(x) == IF x \in Conns THEN CancelOpener(x) ELSE CancelCloser(x)

-----------------------------------------------------------------------------
(* The threads that call. submit() tests _stopping, and hands the          *)
(* coroutine over later.                                                   *)

CallerAt(x, label) == caller' = [caller EXCEPT ![x] = label]

TestStopping(x) ==
    /\ api = "sync" /\ x \in ThreadCalls /\ caller[x] = "idle"
    /\ CallerAt(x, IF stopping THEN "raised" ELSE "submitting")
    /\ UNCHANGED <<asyncVars, api, loop, stopping, queued, cancelled, late>>

\* run_coroutine_threadsafe raises only if the loop is closed.
Submit(x) ==
    /\ caller[x] = "submitting"
    /\ IF loop = "closed"
       THEN CallerAt(x, "raised") /\ UNCHANGED <<queued, late>>
       ELSE /\ CallerAt(x, "waiting") /\ queued' = queued \cup {x}
            /\ late' = IF stopping THEN late \cup {x} ELSE late
    /\ UNCHANGED <<asyncVars, api, loop, stopping, cancelled>>

\* future.result() of an open or a stream; of close(), which then stops the
\* loop: the first to do so schedules the shutdown.
Answered(x) ==
    /\ caller[x] = "waiting"
    /\ \/ /\ Result(x) /\ x \in Conns /\ CallerAt(x, "returned") /\ UNCHANGED stopping
       \/ /\ Result(x) /\ x \in Closers /\ CallerAt(x, "joining") /\ stopping' = TRUE
       \/ /\ Raised(x) /\ CallerAt(x, "raised") /\ UNCHANGED stopping
    /\ UNCHANGED <<asyncVars, api, loop, queued, cancelled, late>>

\* Mutant of ResultTimesOut: close() waits without a timeout.
ResultNeverTimesOut(k) == FALSE /\ UNCHANGED vars

\* The future of close() is awaited for sync_close_timeout_seconds. The loop is
\* not stopped then.
ResultTimesOut(k) ==
    /\ k \in Closers /\ caller[k] = "waiting"
    /\ CallerAt(k, "raised")
    /\ UNCHANGED <<asyncVars, api, loop, stopping, queued, cancelled, late>>

\* stop() has joined the thread, or raises because it is still alive.
Joined(k) ==
    /\ caller[k] = "joining"
    /\ CallerAt(k, IF loop = "closed" THEN "returned" ELSE "raised")
    /\ UNCHANGED <<asyncVars, api, loop, stopping, queued, cancelled, late>>

-----------------------------------------------------------------------------
(* The loop's thread.                                                      *)

\* A call begins: handed over by its thread, or made on the loop.
Begin(x) ==
    /\ LoopRuns
    /\ x \in queued \/ api = "async"
    /\ Start(x)
    /\ queued' = queued \ {x}
    /\ UNCHANGED <<api, loop, stopping, caller, cancelled, late>>

\* A caller of the async client gives up; a task the loop has cancelled ends.
CancelCall(x) ==
    /\ LoopRuns
    /\ api = "async" \/ x \in cancelled
    /\ Cancel(x)
    /\ UNCHANGED threadVars

\* A task that was cancelled does not take another step of its own.
LoopDue ==
    /\ LoopRuns
    /\ \/ \E c \in Conns : RunDue(c)
       \/ \E c \in Conns \ cancelled : OpenerStep(c)
       \/ \E c \in cancelled \cap Conns : Aborted(c)
       \/ \E k \in Closers \ cancelled : CloserStep(k)
    /\ UNCHANGED threadVars

LoopMay ==
    /\ LoopRuns
    /\ \E c \in Conns : RunMay(c) \/ HandleCloses(c)
    /\ UNCHANGED threadVars

StartupAnswered(c) == LoopRuns /\ StartupEnds(c) /\ UNCHANGED threadVars

\* A callback runs on the loop: of an event while the connection is up, or of
\* its life (on_disconnect is awaited before run() goes round). It calls a
\* method that waits for an answer of the loop: health, subscribe and others
\* wait without a timeout.
CallbackAsks(c) ==
    /\ CallbackMayAsk /\ api = "sync"
    /\ LoopRuns /\ conn[c] \in {"callback", "up"}
    /\ loop' = "blocked"
    /\ UNCHANGED <<asyncVars, api, stopping, queued, caller, cancelled, late>>

Tasks == {x \in Calls : InProgress(x)}
Alive == {c \in Conns : conn[c] = "created"} \cup Live

\* _shutdown_loop cancels every task there is. What was handed over before
\* stop() was called has begun: the loop takes its callbacks in order.
ShutdownBegins ==
    /\ loop = "running" /\ stopping /\ queued \subseteq late
    /\ loop' = "stopping" /\ cancelled' = cancelled \cup Tasks /\ killed' = killed \cup Alive
    /\ UNCHANGED <<conn, started, ready, clientVars, callVars,
                   api, stopping, queued, caller, late>>

\* They have ended, or two seconds are over: loop.stop(). _run cancels what is
\* left, and what was begun since.
LoopStops ==
    /\ loop = "stopping"
    /\ loop' = "draining" /\ cancelled' = cancelled \cup Tasks /\ killed' = killed \cup Alive
    /\ UNCHANGED <<conn, started, ready, clientVars, callVars,
                   api, stopping, queued, caller, late>>

\* Mutant of LoopCloses: the loop is closed at once.
LoopClosesAtOnce ==
    /\ loop = "draining" /\ loop' = "closed"
    /\ UNCHANGED <<asyncVars, api, stopping, queued, caller, cancelled, late>>

\* What was cancelled has ended. A call that came after that is left as it is.
LoopCloses ==
    /\ loop = "draining"
    /\ cancelled \cap Tasks = {} /\ killed \cap Live = {}
    /\ loop' = "closed"
    /\ UNCHANGED <<asyncVars, api, stopping, queued, caller, cancelled, late>>

\* What a thread, or the loop, does once it can.
Due ==
    \/ \E x \in Calls :
        \/ Submit(x) \/ Answered(x)
        \/ x \in queued /\ Begin(x)
        \/ x \in cancelled /\ CancelCall(x)
    \/ \E k \in Closers : ResultTimesOut(k) \/ Joined(k)
    \/ LoopDue

Next ==
    \/ Due \/ LoopMay
    \/ \E x \in Calls : TestStopping(x) \/ Begin(x) \/ CancelCall(x)
    \/ \E c \in Conns : StartupAnswered(c) \/ CallbackAsks(c)
    \/ ShutdownBegins \/ LoopStops \/ LoopCloses

Spec == Init /\ [][Next]_vars

(***************************************************************************)
(* Threads run and their waits with a timeout end; the loop runs what is   *)
(* ready. One condition is enough for all of them: each of these steps can *)
(* be taken a bounded number of times. Nothing is assumed of servers and   *)
(* callbacks, except that a startup request ends unless its socket is lost *)
(* (RealTimeSubscriptions, RequestsEnd).                                   *)
(***************************************************************************)
FairSpec == Spec /\ WF_vars(Due) /\ \A c \in RealTime : WF_vars(StartupAnswered(c))

-----------------------------------------------------------------------------
\* Types, and those of WebsocketClient.
TypeOK ==
    /\ AsyncTypeOK
    /\ api \in Apis /\ stopping \in BOOLEAN
    /\ loop \in {"running", "stopping", "draining", "closed", "blocked"}
    /\ queued \subseteq Calls /\ cancelled \subseteq Calls /\ late \subseteq Calls
    /\ caller \in [Calls -> {"idle", "submitting", "waiting", "joining", "returned", "raised"}]

(***************************************************************************)
(* When the loop is gone, every thread that waits for a call can be        *)
(* answered: stop() cancels what is under way before it closes the loop.   *)
(* The exception is a thread that had passed the test of _stopping and     *)
(* handed its call over after stop(): it may wait for ever.                *)
(***************************************************************************)
NoCallLost ==
    loop = "closed" =>
        \A x \in Calls : caller[x] = "waiting" => Result(x) \/ Raised(x) \/ x \in late

(***************************************************************************)
(* close() of the sync client always comes back, whatever the servers, the *)
(* callbacks and other threads do, even if the loop is blocked.            *)
(***************************************************************************)
SyncCloseEnds ==
    \A k \in Closers :
        caller[k] \in {"submitting", "waiting", "joining"}
            ~> caller[k] \in {"returned", "raised"}

\* A real-time connection that ended after it had connected and before its
\* startup request began never sets _startup_subscriptions_ready.
NeverReady(c) == opener[c] = "subscribing" /\ conn[c] = "over" /\ c \notin ready

(***************************************************************************)
(* Closing the client ends the wait of whoever opens a connection: it gets *)
(* a handle or an exception. Not if the loop is blocked or gone, not if    *)
(* that close() was itself cancelled (a callback may hang, and nobody ends *)
(* it), and not for the real-time connection that is never ready.          *)
(***************************************************************************)
OpenEndsOnceClosed ==
    \A c \in Conns :
        opener[c] \in {"waiting", "subscribing", "aborting"} /\ of[c] \in closed
            ~> \/ opener[c] \notin {"waiting", "subscribing", "aborting"}
               \/ \E k \in Closers : closer[k] = [pc |-> "cancelled", epoch |-> of[c]]
               \/ NeverReady(c) \/ ~LoopRuns

(***************************************************************************)
(* "open_*_connection() starts a stream and returns a handle"              *)
(* (README.md:231): once its connection is over, the call does end.        *)
(***************************************************************************)
OpenEndsWithItsConnection ==
    \A c \in Conns :
        opener[c] \in {"waiting", "subscribing"} /\ conn[c] = "over"
            ~> opener[c] \notin {"waiting", "subscribing"} \/ ~LoopRuns
=============================================================================
