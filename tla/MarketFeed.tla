----------------------------- MODULE MarketFeed -----------------------------
(***************************************************************************)
(* What a market connection says about its books: the flag                 *)
(* market_book_synchronized, the store it feeds, and the stale monitor that*)
(* withdraws both. The reader sets them when a frame arrives, the processor*)
(* when it takes the frame from the queue, the monitor when nothing came   *)
(* for a while, and run() when the socket comes and goes.                  *)
(*                                                                         *)
(* The flag and its reason are always assigned together: the flag is set   *)
(* exactly when the reason is "none". Time is a set of ages, each counted  *)
(* up to StaleAfter. Of the store only _valid_tokens is kept (its reason is*)
(* None exactly when a token is valid, see LocalOrderBook). Tasks and      *)
(* closing are in ManagedConnection.                                       *)
(*                                                                         *)
(* Left out: trades, tick sizes and best quotes, which do nothing here but *)
(* some of them make a feed with a store fresh.                            *)
(***************************************************************************)
EXTENDS Naturals, Sequences

CONSTANTS
    Tokens,             \* asset ids of the subscription
    QueueSize,          \* _message_queue_maxsize
    Options,            \* how the connection may be opened: see AllOptions
    StaleAfter,         \* stale_after_seconds, in ticks
    MaxMonitors         \* bound on the stale monitors alive at a time

\* message_queue_overflow_policy; whether local_order_books is given, whether
\* message_mode is "parsed"; and reconnect_on_stale.
AllOptions == [overflow : {"drop_oldest", "reconnect"},
               store : BOOLEAN, parsed : BOOLEAN, reconnect : BOOLEAN]

ASSUME ConstantsAssumption ==
    /\ QueueSize \in Nat \ {0} /\ StaleAfter \in Nat \ {0} /\ MaxMonitors \in Nat \ {0}
    /\ Options \subseteq AllOptions

\* A "book" frame carries the whole books of some tokens, a "delta" changes of
\* one. Neither the parser nor the store understands an "odd" frame, and
\* "garbage" is not even JSON.
Ages == 0..StaleAfter
Frames ==
    [kind : {"book"}, tokens : (SUBSET Tokens) \ {{}}, age : Ages]
    \cup [kind : {"delta", "odd", "garbage"}, tokens : {{t} : t \in Tokens}, age : Ages]

Reasons == {"none", "awaiting_initial_snapshot", "parse_failure", "queue_overflow",
            "snapshot_stale", "connection_closed"}

VARIABLES
    options,      \* those of this connection
    conn,         \* "down", "up", "draining": the reader has ended and the
                  \* processor has not, "lost" or "ending": run() is tearing
                  \* down, to retry or not, "over"
    closing,      \* the stale monitor has closed the socket
    monitors,     \* _stale_monitor_loop tasks alive
    queue,        \* _message_queue
    busy,         \* process_event is running
    reason,       \* _market_book_invalid_reason, "none" when synchronized
    books,        \* _valid_tokens of the store
    silence,      \* age of _last_market_data_time, or of _last_connect_time
    warning,      \* _stale_warning_active
    behind,       \* tokens of which the callback has missed something since it
                  \* was given a snapshot of them on this socket
    answered      \* a snapshot has arrived on this socket

socketVars == <<options, conn, closing, monitors>>
queueVars == <<queue, busy>>
bookVars == <<reason, books>>
timeVars == <<silence, warning>>
ghostVars == <<behind, answered>>
vars == <<socketVars, queueVars, bookVars, timeVars, ghostVars>>

-----------------------------------------------------------------------------
Init ==
    /\ options \in Options
    /\ conn = "down" /\ closing = FALSE /\ monitors = 0
    /\ queue = <<>> /\ busy = FALSE
    /\ reason = "awaiting_initial_snapshot" /\ books = {}
    /\ silence = 0 /\ warning = FALSE
    /\ behind = Tokens /\ answered = FALSE

Synchronized == reason = "none"
MarkResynchronized == reason' = "none"
InvalidateFlag(why) == reason' = why
InvalidateStore == books' = {}
MarkFresh(age) == silence' = age /\ warning' = FALSE

-----------------------------------------------------------------------------
(* run()                                                                   *)

\* Mutants of Connect: the queue is not reset; the warning is not.
ConnectKeepsQueue ==
    /\ conn = "down" /\ monitors < MaxMonitors
    /\ conn' = "up" /\ closing' = FALSE /\ monitors' = monitors + 1
    /\ InvalidateFlag("awaiting_initial_snapshot") /\ InvalidateStore
    /\ silence' = 0 /\ warning' = FALSE
    /\ behind' = Tokens /\ answered' = FALSE
    /\ UNCHANGED <<options, queueVars>>

ConnectKeepsWarning ==
    /\ conn = "down" /\ monitors < MaxMonitors
    /\ conn' = "up" /\ closing' = FALSE /\ monitors' = monitors + 1
    /\ queue' = <<>> /\ busy' = FALSE
    /\ InvalidateFlag("awaiting_initial_snapshot") /\ InvalidateStore
    /\ silence' = 0 /\ behind' = Tokens /\ answered' = FALSE
    /\ UNCHANGED <<options, warning>>

Connect ==
    /\ conn = "down" /\ monitors < MaxMonitors
    /\ conn' = "up" /\ closing' = FALSE /\ monitors' = monitors + 1
    /\ queue' = <<>> /\ busy' = FALSE
    /\ InvalidateFlag("awaiting_initial_snapshot") /\ InvalidateStore
    /\ silence' = 0 /\ warning' = FALSE
    /\ behind' = Tokens /\ answered' = FALSE
    /\ UNCHANGED options

\* The socket is closed properly: the queue is drained, unless the callback
\* fails or something cancels the processor.
SocketCloses ==
    /\ conn = "up"
    /\ conn' = "draining"
    /\ UNCHANGED <<options, closing, monitors, queueVars, bookVars, timeVars, ghostVars>>

\* _run_connected is over. A reader that failed leaves the monitor running.
Leave(to, left) ==
    /\ conn' = to /\ monitors' = left
    /\ busy' = FALSE
    /\ UNCHANGED <<options, closing, queue, bookVars, timeVars, ghostVars>>

Drained == conn = "draining" /\ queue = <<>> /\ ~busy /\ Leave("lost", monitors - 1)
ReaderFails == conn = "up" /\ Leave("lost", monitors)

\* close() cancels run(), or the callback fails.
Stopped == conn \in {"up", "draining"} /\ Leave("ending", monitors - 1)

\* on_disconnect has returned. The last monitor ends when run() does.
Disconnected ==
    /\ \/ conn = "lost" /\ conn' = "down" /\ UNCHANGED monitors
       \/ conn \in {"lost", "ending"} /\ conn' = "over" /\ monitors' = 0
    /\ InvalidateFlag("connection_closed") /\ InvalidateStore
    /\ UNCHANGED <<options, closing, queueVars, timeVars, ghostVars>>

\* A second cancellation arrives while on_disconnect runs.
Abandoned ==
    /\ conn \in {"lost", "ending"}
    /\ conn' = "over" /\ monitors' = 0
    /\ UNCHANGED <<options, closing, queueVars, bookVars, timeVars, ghostVars>>

-----------------------------------------------------------------------------
(* The reader: _observe_raw_market_message, then _enqueue_message.         *)

\* Mutant of ObserveFlag: unreadable text withdraws the store only.
ObserveSnapshots(f) ==
    IF options.store /\ f.kind = "book" THEN MarkResynchronized ELSE UNCHANGED reason

ObserveFlag(f) ==
    \/ options.store /\ f.kind = "book" /\ MarkResynchronized
    \/ options.store /\ f.kind = "garbage" /\ InvalidateFlag("parse_failure")
    \/ (~options.store \/ f.kind \in {"delta", "odd"}) /\ UNCHANGED reason

\* The store applies snapshots, and deltas of the tokens it holds; either makes
\* the feed fresh.
ObserveStore(f) ==
    \/ /\ options.store /\ f.kind = "book"
       /\ books' = books \cup f.tokens /\ MarkFresh(0)
    \/ /\ options.store /\ f.kind = "garbage"
       /\ InvalidateStore /\ UNCHANGED timeVars
    \/ /\ options.store /\ f.kind = "delta" /\ f.tokens \subseteq books
       /\ UNCHANGED books /\ MarkFresh(0)
    \/ /\ ~options.store \/ f.kind = "odd" \/ (f.kind = "delta" /\ ~(f.tokens \subseteq books))
       /\ UNCHANGED <<books, timeVars>>

Put(f) ==
    /\ Len(queue) < QueueSize
    /\ queue' = Append(queue, f)
    /\ ObserveFlag(f)
    /\ UNCHANGED <<conn, busy, behind>>

Full == Len(queue) = QueueSize

\* Mutants of DropOldest: nothing is dropped; the flag is kept.
DropNothing(f) ==
    /\ Full /\ options.overflow = "drop_oldest"
    /\ queue' = Append(queue, f)
    /\ InvalidateFlag("queue_overflow")
    /\ UNCHANGED <<conn, busy, behind>>

DropSilently(f) ==
    /\ Full /\ options.overflow = "drop_oldest"
    /\ queue' = Append(Tail(queue), f)
    /\ behind' = behind \cup Head(queue).tokens
    /\ ObserveFlag(f)
    /\ UNCHANGED <<conn, busy>>

\* The flag is withdrawn whatever the store said, the store is not.
DropOldest(f) ==
    /\ Full /\ options.overflow = "drop_oldest"
    /\ queue' = Append(Tail(queue), f)
    /\ behind' = behind \cup Head(queue).tokens
    /\ InvalidateFlag("queue_overflow")
    /\ UNCHANGED <<conn, busy>>

\* MessageQueueReconnectError: the reader fails.
GiveUp ==
    /\ Full /\ options.overflow = "reconnect"
    /\ conn' = "lost" /\ busy' = FALSE
    /\ InvalidateFlag("queue_overflow")
    /\ UNCHANGED <<queue, behind>>

Receive(f) ==
    /\ conn = "up" /\ f.age = 0
    /\ ObserveStore(f)
    /\ answered' = (answered \/ f.kind = "book")
    /\ Put(f) \/ DropOldest(f) \/ GiveUp
    /\ UNCHANGED <<options, closing, monitors>>

-----------------------------------------------------------------------------
(* The processor: _dispatch_message, up to the callback's first await.     *)

\* Raw text is handed to the callback as it is.
TakeBook(f) ==
    /\ f.kind = "book"
    /\ behind' = behind \ f.tokens
    /\ \/ options.parsed /\ MarkResynchronized /\ MarkFresh(f.age)
       \/ ~options.parsed /\ UNCHANGED <<reason, timeVars>>

TakeDelta(f) ==
    /\ f.kind = "delta"
    /\ \/ options.parsed /\ MarkFresh(f.age)
       \/ ~options.parsed /\ UNCHANGED timeVars
    /\ UNCHANGED <<reason, behind>>

TakeUnparsed(f) ==
    /\ f.kind \in {"odd", "garbage"}
    /\ behind' = behind \cup f.tokens
    /\ \/ options.parsed /\ InvalidateFlag("parse_failure")
       \/ ~options.parsed /\ UNCHANGED reason
    /\ UNCHANGED timeVars

Take ==
    /\ conn \in {"up", "draining"} /\ ~busy /\ queue # <<>>
    /\ queue' = Tail(queue) /\ busy' = TRUE
    /\ TakeBook(Head(queue)) \/ TakeDelta(Head(queue)) \/ TakeUnparsed(Head(queue))
    /\ UNCHANGED <<socketVars, books, answered>>

CallbackReturns ==
    /\ busy /\ busy' = FALSE
    /\ UNCHANGED <<socketVars, queue, bookVars, timeVars, ghostVars>>

-----------------------------------------------------------------------------
(* The stale monitors, and time.                                           *)

\* Mutant of Poll: the store is forgotten.
PollKeepsStore ==
    /\ monitors > 0 /\ silence = StaleAfter /\ ~warning
    /\ warning' = TRUE
    /\ InvalidateFlag("snapshot_stale")
    /\ closing' = (closing \/ (options.reconnect /\ conn = "up"))
    /\ UNCHANGED <<options, conn, monitors, queueVars, books, silence, ghostVars>>

\* One of them wakes up, and finds the feed stale.
Poll ==
    /\ monitors > 0 /\ silence = StaleAfter /\ ~warning
    /\ warning' = TRUE
    /\ InvalidateFlag("snapshot_stale") /\ InvalidateStore
    /\ closing' = (closing \/ (options.reconnect /\ conn = "up"))
    /\ UNCHANGED <<options, conn, monitors, queueVars, ghostVars, silence>>

Older(age) == IF age < StaleAfter THEN age + 1 ELSE age

Tick ==
    /\ silence' = Older(silence)
    /\ queue' = [i \in DOMAIN queue |-> [queue[i] EXCEPT !.age = Older(@)]]
    /\ UNCHANGED <<socketVars, busy, bookVars, warning, ghostVars>>

Next ==
    \/ Connect \/ SocketCloses \/ Drained \/ ReaderFails \/ Stopped
    \/ Disconnected \/ Abandoned
    \/ \E f \in Frames : Receive(f)
    \/ Take \/ CallbackReturns
    \/ Poll \/ Tick

Spec == Init /\ [][Next]_vars

\* Monitors poll, time passes, and a socket that is being closed is closed
\* after close_timeout at the latest.
FairSpec ==
    /\ Spec
    /\ WF_vars(Poll) /\ WF_vars(Tick)
    /\ WF_vars(closing /\ (SocketCloses \/ ReaderFails))

-----------------------------------------------------------------------------
\* Every variable has its type.
TypeOK ==
    /\ options \in Options
    /\ conn \in {"down", "up", "draining", "lost", "ending", "over"}
    /\ closing \in BOOLEAN /\ monitors \in 0..MaxMonitors
    /\ queue \in Seq(Frames) /\ Len(queue) <= QueueSize /\ busy \in BOOLEAN
    /\ reason \in Reasons /\ books \subseteq Tokens
    /\ silence \in Ages /\ warning \in BOOLEAN
    /\ behind \subseteq Tokens /\ answered \in BOOLEAN

\* A connection that is up calls its books synchronized, and the store calls
\* one valid, only after a snapshot has arrived on this very socket: nothing
\* queued or stored by the last socket counts.
SnapshotOfThisSocket ==
    conn = "up" /\ (Synchronized \/ books # {}) => answered

\* While the stale warning is up, neither the flag nor the store offers a book.
StaleOffersNothing == warning => ~Synchronized /\ books = {}

\* Without a store the flag speaks of the books a callback keeps from the events
\* it is given: while it is up, at least the tokens of the last snapshot have
\* missed nothing since. (Not every token: see SynchronizedMeansNothingMissed.)
LastSnapshotStands ==
    conn = "up" /\ Synchronized /\ ~options.store => behind # Tokens

\* With raw delivery only the reader sets the flag, and it agrees with the store:
\* books that are called synchronized are there, over reconnects, overflows,
\* unreadable frames and stale feeds. (Not with parsed delivery: see
\* SynchronizedMeansStoreValid.)
RawFlagAgreesWithStore ==
    options.store /\ ~options.parsed /\ Synchronized => books # {}

\* With reconnect_on_stale a market feed that falls silent does not stay up: it
\* is closed, or data comes, also when monitors of earlier sockets are alive.
SilentFeedIsReplaced ==
    options.reconnect /\ conn = "up" /\ silence = StaleAfter
        ~> conn # "up" \/ silence < StaleAfter

-----------------------------------------------------------------------------
(* What the README and the log say and the code does not do.               *)

\* README.md:242: the connection "tracks whether the local market book state is
\* synchronized after a full snapshot": while it says so, a callback that keeps
\* books from the events it is given has missed nothing since their snapshots.
SynchronizedMeansNothingMissed == conn = "up" /\ Synchronized => behind = {}

\* "Market order book synchronization restored from full snapshot"
\* (websockets_client.py:1792): then the store holds a book.
SynchronizedMeansStoreValid == options.store /\ Synchronized => books # {}
=============================================================================
