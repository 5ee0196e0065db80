-------------------------- MODULE WebsocketClient ---------------------------
(***************************************************************************)
(* AsyncPolymarketWebsocketsClient: the connections it has opened, the     *)
(* _closed event they all hold, open_*_connection and run_*_stream against *)
(* close().                                                                *)
(*                                                                         *)
(* close() sets the event; the next open replaces it by a new one. An      *)
(* epoch is the time of one such event: `of` says which event a connection *)
(* was given. The lock around _connections is never held across an await,  *)
(* so what it protects is part of the step.                                *)
(*                                                                         *)
(* A connection is its run task, as coarse as the registry sees it:        *)
(* ManagedConnection has the detail. A run task in `killed` was cancelled  *)
(* and ends at its next await; _stop_event is set before, and is not kept  *)
(* apart from that.                                                        *)
(***************************************************************************)
EXTENDS Naturals, FiniteSets

CONSTANTS
    Conns,           \* calls that open a connection, and the connection opened
    RealTime,        \* those of open_real_time_data_connection
    Streams,         \* those of run_*_stream: they wait until it is closed
    Closers          \* calls of close() of the client

ASSUME ConstantsAssumption ==
    /\ RealTime \subseteq Conns /\ Streams \subseteq Conns
    /\ Conns \cap Closers = {}

VARIABLES
    epoch,           \* number of the _closed event the client has now
    closed,          \* epochs whose event is set
    registered,      \* _connections
    conn,            \* what each run task is at
    of,              \* the epoch of the event a connection was given
    killed,          \* connections whose run task was cancelled
    started,         \* connections whose _started_event is set
    ready,           \* those whose _startup_subscriptions_ready is set
    opener,          \* what each call that opens is at
    closer,          \* what each close() is at, and the epoch it has closed
    closing          \* the list of connections each close() has taken

runVars == <<conn, killed, started, ready>>
clientVars == <<epoch, closed, registered, of>>
callVars == <<opener, closer, closing>>
asyncVars == <<runVars, clientVars, callVars>>

Live == {c \in Conns : conn[c] \in {"connecting", "callback", "up"}}

\* _should_stop()
ShouldStop(c) == c \in killed \/ of[c] \in closed

AsyncInit ==
    /\ epoch = 1 /\ closed = {} /\ registered = {}
    /\ conn = [c \in Conns |-> "none"]
    /\ of = [c \in Conns |-> 0]
    /\ killed = {} /\ started = {} /\ ready = {}
    /\ opener = [c \in Conns |-> "idle"]
    /\ closer = [k \in Closers |-> [pc |-> "idle", epoch |-> 0]]
    /\ closing = [k \in Closers |-> {}]

-----------------------------------------------------------------------------
(* The run task: _run_connection around run().                             *)

Becomes(c, phase) == conn' = [conn EXCEPT ![c] = phase]

\* Mutant of Ends: the connection is not unregistered.
EndsRegistered(c) ==
    /\ Becomes(c, "over")
    /\ ready' = IF conn[c] = "up" THEN ready \cup ({c} \cap RealTime) ELSE ready
    /\ UNCHANGED <<killed, started, registered, epoch, closed, of, callVars>>

\* run() has ended; the finally of _after_connected_tasks_started has set the
\* event of a connection that had come so far, and of no other.
Ends(c) ==
    /\ Becomes(c, "over")
    /\ registered' = registered \ {c}
    /\ ready' = IF conn[c] = "up" THEN ready \cup ({c} \cap RealTime) ELSE ready
    /\ UNCHANGED <<killed, started, epoch, closed, of, callVars>>

\* Mutants of RunBegins: the connection is not registered, or does not look at
\* the events first.
RunBeginsUnregistered(c) ==
    /\ conn[c] = "created"
    /\ Becomes(c, IF ShouldStop(c) THEN "over" ELSE "connecting")
    /\ UNCHANGED <<killed, started, ready, clientVars, callVars>>
RunBeginsAnyway(c) ==
    /\ conn[c] = "created"
    /\ Becomes(c, "connecting") /\ registered' = registered \cup {c}
    /\ UNCHANGED <<killed, started, ready, epoch, closed, of, callVars>>

\* The first step of the task: it registers, and leaves at once if the client
\* was closed since the task was made.
RunBegins(c) ==
    /\ conn[c] = "created"
    /\ IF ShouldStop(c)
       THEN Becomes(c, "over") /\ UNCHANGED registered
       ELSE Becomes(c, "connecting") /\ registered' = registered \cup {c}
    /\ UNCHANGED <<killed, started, ready, epoch, closed, of, callVars>>

\* A socket is open and _started_event set; the lifecycle callbacks are awaited.
Connected(c) ==
    /\ conn[c] = "connecting" /\ c \notin killed
    /\ Becomes(c, "callback") /\ started' = started \cup {c}
    /\ UNCHANGED <<killed, ready, clientVars, callVars>>

\* The callbacks have returned: _run_connected.
CallbacksReturn(c) ==
    /\ conn[c] = "callback" /\ c \notin killed
    /\ Becomes(c, "up")
    /\ ready' = ready \ {c}
    /\ UNCHANGED <<killed, started, clientVars, callVars>>

\* The startup request was answered, refused or not answered in time.
StartupEnds(c) ==
    /\ conn[c] = "up" /\ c \in RealTime \ ready
    /\ ready' = ready \cup {c}
    /\ UNCHANGED <<conn, killed, started, clientVars, callVars>>

\* The socket is lost, and run() goes round.
SocketLost(c) ==
    /\ conn[c] = "up" /\ c \notin killed /\ ~ShouldStop(c)
    /\ Becomes(c, "connecting") /\ ready' = ready \cup ({c} \cap RealTime)
    /\ UNCHANGED <<killed, started, clientVars, callVars>>

\* A connect attempt or the back-off is over, and so is the connection.
GivesUp(c) == conn[c] = "connecting" /\ ShouldStop(c) /\ Ends(c)

\* A fatal error of the callback, a full queue, or the first frame after an
\* event was set.
StopsItself(c) == conn[c] = "up" /\ Ends(c)

\* The cancelled task ends, wherever it is.
Killed(c) == c \in killed \cap Live /\ Ends(c)

\* What a run task does by itself, and what waits for a server or a callback.
RunDue(c) == RunBegins(c) \/ GivesUp(c) \/ Killed(c)
RunMay(c) == Connected(c) \/ CallbacksReturn(c) \/ SocketLost(c) \/ StopsItself(c)

-----------------------------------------------------------------------------
(* open_*_connection and run_*_stream.                                     *)

OpenerAt(c, label) == opener' = [opener EXCEPT ![c] = label]

\* After a close(), a new event, and the connections of before are forgotten.
EnsureOpen ==
    IF epoch \in closed
    THEN epoch' = epoch + 1 /\ registered' = {}
    ELSE UNCHANGED <<epoch, registered>>

\* The connection gets the event of now, and a task to run it.
Opens(c) ==
    /\ opener[c] = "idle"
    /\ EnsureOpen
    /\ of' = [of EXCEPT ![c] = epoch']
    /\ OpenerAt(c, "waiting") /\ Becomes(c, "created")
    /\ UNCHANGED <<closed, killed, started, ready, closer, closing>>

\* Market, user and sports streams, alone or under a run_*_stream.
OpenChannelConnection(c) == c \notin RealTime /\ Opens(c)

\* wait_started of this one waits for the startup subscriptions too.
OpenRealTimeDataConnection(c) == c \in RealTime /\ Opens(c)

Open(c) == OpenChannelConnection(c) \/ OpenRealTimeDataConnection(c)

\* A handle for the caller; run_*_stream awaits wait_closed() of the handle.
Handle(c) == IF c \in Streams THEN "until_closed" ELSE "returned"

\* wait_started: started_wait is done. The real-time connection waits on.
OpenProceeds(c) ==
    /\ opener[c] = "waiting" /\ c \in started
    /\ OpenerAt(c, IF c \in RealTime \ ready THEN "subscribing" ELSE Handle(c))
    /\ UNCHANGED <<runVars, clientVars, closer, closing>>

OpenReady(c) ==
    /\ opener[c] = "subscribing" /\ c \in ready
    /\ OpenerAt(c, Handle(c))
    /\ UNCHANGED <<runVars, clientVars, closer, closing>>

StreamEnds(c) ==
    /\ opener[c] = "until_closed" /\ conn[c] = "over"
    /\ OpenerAt(c, "returned")
    /\ UNCHANGED <<runVars, clientVars, closer, closing>>

\* ConnectionClosedBeforeStartError: the task is cancelled and awaited.
OpenFails(c) ==
    /\ opener[c] = "waiting" /\ c \notin started /\ conn[c] # "created"
    /\ ShouldStop(c) \/ conn[c] = "over"
    /\ OpenerAt(c, "aborting") /\ killed' = killed \cup {c}
    /\ UNCHANGED <<conn, started, ready, clientVars, closer, closing>>

Aborted(c) ==
    /\ opener[c] = "aborting" /\ conn[c] = "over"
    /\ OpenerAt(c, "raised")
    /\ UNCHANGED <<runVars, clientVars, closer, closing>>

\* The caller is cancelled, by a timeout of its own for instance: `except
\* Exception` does not see it, and the connection stays as it is.
CancelOpener(c) ==
    /\ opener[c] \in {"waiting", "subscribing", "until_closed"}
    /\ OpenerAt(c, "cancelled")
    /\ UNCHANGED <<runVars, clientVars, closer, closing>>

OpenerStep(c) ==
    OpenProceeds(c) \/ OpenReady(c) \/ StreamEnds(c) \/ OpenFails(c) \/ Aborted(c)

-----------------------------------------------------------------------------
(* close() of the client, and of a handle.                                 *)

CloserAt(k, label) == closer' = [closer EXCEPT ![k].pc = label]

\* Mutant of StartClose: only the connections that have started are taken.
StartCloseStarted(k) ==
    /\ closer[k].pc = "idle"
    /\ closed' = closed \cup {epoch}
    /\ closer' = [closer EXCEPT ![k] = [pc |-> "closing", epoch |-> epoch]]
    /\ closing' = [closing EXCEPT ![k] = registered \cap started]
    /\ UNCHANGED <<epoch, registered, of, runVars, opener>>

\* _shutdown_connections: nothing to do if the event is set, even if another
\* close() is still at work.
StartClose(k) ==
    /\ closer[k].pc = "idle"
    /\ IF epoch \in closed
       THEN CloserAt(k, "returned") /\ UNCHANGED <<closed, closing>>
       ELSE /\ closed' = closed \cup {epoch}
            /\ closer' = [closer EXCEPT ![k] = [pc |-> "closing", epoch |-> epoch]]
            /\ closing' = [closing EXCEPT ![k] = registered]
    /\ UNCHANGED <<epoch, registered, of, runVars, opener>>

\* One of the gathered close() calls cancels the run task: at once, or for a
\* user connection after it was given time to end.
ChildCloses(k, c) ==
    /\ closer[k].pc = "closing" /\ c \in (closing[k] \cap Live) \ killed
    /\ killed' = killed \cup {c}
    /\ UNCHANGED <<conn, started, ready, clientVars, callVars>>

\* gather() has all results.
CloserReturns(k) ==
    /\ closer[k].pc = "closing" /\ closing[k] \cap Live = {}
    /\ CloserAt(k, "returned")
    /\ UNCHANGED <<runVars, clientVars, opener, closing>>

\* close() is cancelled, and the calls it gathers with it.
CancelCloser(k) ==
    /\ closer[k].pc = "closing"
    /\ CloserAt(k, "cancelled")
    /\ UNCHANGED <<runVars, clientVars, opener, closing>>

\* connection.close(), graceful_close() or abort() by whoever holds the handle.
HandleCloses(c) ==
    /\ opener[c] = "returned" /\ c \in Live \ killed
    /\ killed' = killed \cup {c}
    /\ UNCHANGED <<conn, started, ready, clientVars, callVars>>

CloserStep(k) == CloserReturns(k) \/ \E c \in Conns : ChildCloses(k, c)

-----------------------------------------------------------------------------
\* Types; only connections that are alive are registered, and a call that
\* waits has made its connection.
AsyncTypeOK ==
    /\ epoch \in Nat \ {0} /\ closed \subseteq 1..epoch
    /\ registered \subseteq Conns
    /\ conn \in [Conns -> {"none", "created", "connecting", "callback", "up", "over"}]
    /\ of \in [Conns -> 0..epoch]
    /\ killed \subseteq Conns
    /\ started \subseteq Conns /\ ready \subseteq RealTime
    /\ opener \in [Conns -> {"idle", "waiting", "subscribing", "until_closed", "aborting",
                             "returned", "raised", "cancelled"}]
    /\ closer \in [Closers -> [pc : {"idle", "closing", "returned", "cancelled"}, epoch : 0..epoch]]
    /\ closing \in [Closers -> SUBSET Conns]
    /\ registered \subseteq Live
    /\ \A c \in Conns : of[c] = 0 <=> opener[c] = "idle"
    /\ \A c \in Conns : of[c] = 0 <=> conn[c] = "none"

(***************************************************************************)
(* Whoever has awaited close() may rely on it, unless another close() was  *)
(* there first: no connection opened before it has a socket or calls a     *)
(* callback, and none of them will. A connection whose task had not begun  *)
(* is in no list; it leaves at its first step.                             *)
(***************************************************************************)
ClosedClientIsOver ==
    \A k \in Closers, c \in Live :
        closer[k].pc = "returned" /\ closer[k].epoch # 0 => of[c] # closer[k].epoch

(***************************************************************************)
(* A connection that is alive can be ended: by the next close(), which     *)
(* finds it in _connections, or because it is being ended. The exceptions  *)
(* are connections of a close() that was cancelled: its event is set, so   *)
(* the next close() leaves them alone, and the next open forgets them.     *)
(***************************************************************************)
LiveIsReachable ==
    \A c \in Live :
        \/ c \in registered /\ of[c] = epoch /\ epoch \notin closed
        \/ c \in killed
        \/ \E k \in Closers : c \in closing[k] /\ closer[k].pc \in {"closing", "cancelled"}
=============================================================================
