----------------------- MODULE RealTimeSubscriptions -----------------------
(***************************************************************************)
(* AsyncRealTimeDataConnection: subscribe() and unsubscribe() on a live    *)
(* connection, against the subscription that the run task itself sends     *)
(* whenever it has connected again.                                        *)
(*                                                                         *)
(* A requester is the run task or a task that calls subscribe() or         *)
(* unsubscribe(). Callers exclude each other by a lock; the run task takes *)
(* no lock. All share one pending error and one pending acknowledgement,   *)
(* which the later request overwrites. A step is what one task does        *)
(* between two awaits.                                                     *)
(*                                                                         *)
(* Timeouts may fire whenever their wait is on. The one relation between   *)
(* delays that is kept is BackoffOutlastsGrace: reconnect_initial_delay (1 *)
(* s by default) is longer than the grace of 0.2 s and a poll of 10 ms.    *)
(*                                                                         *)
(* Left out: gamma_auth, the queue between socket and dispatch (answers in *)
(* flight are a set, and are dispatched in any order or never), callbacks, *)
(* and calls made from a callback.                                         *)
(***************************************************************************)
EXTENDS Naturals, FiniteSets

CONSTANTS
    Types,                 \* the concrete types of each topic
    InitialSubscriptions,  \* the lists it may be opened with
    SubscribeArguments,    \* sets of subscriptions given to subscribe()
    UnsubscribeArguments,  \* and to unsubscribe()
    Callers,
    Replies,               \* of the server: see Reply
    AnswersInTime,         \* the server's answers beat the timeout
    BackoffOutlastsGrace,
    MaxSockets,            \* bound on connections
    MaxCalls               \* bound on calls

RunTask == "run"
Requesters == Callers \cup {RunTask}
Nobody == "nobody"

ASSUME RequestersAssumption == {RunTask, Nobody} \cap Callers = {} /\ RunTask # Nobody
ASSUME BoundsAssumption ==
    /\ MaxSockets \in Nat /\ MaxCalls \in Nat
    /\ AnswersInTime \in BOOLEAN /\ BackoffOutlastsGrace \in BOOLEAN
    /\ Replies \subseteq {"accept", "refuse", "stale", "silent"}
\* expand() stands for "*" the other types of a topic.
ASSUME SubscriptionsAssumption ==
    /\ \A topic \in DOMAIN Types : "*" \notin Types[topic]
    /\ \A S \in InitialSubscriptions \cup SubscribeArguments : \A s \in S :
          DOMAIN s = {"topic", "type", "filters"} /\ s.topic \in DOMAIN Types

VARIABLES
    run,       \* await the run task is at
    socket,    \* number of the latest connection
    open,      \* its transport still works
    ready,     \* _startup_subscriptions_ready
    stop,      \* _stop_event
    listed,    \* _current_subscriptions, and by its keys _subscription_keys
    pendErr,   \* whose future _pending_subscription_error is
    pendAck,   \* whose future _pending_subscription_ack is
    ackKeys,   \* _pending_subscription_ack_keys
    req,       \* the locals of each requester's call
    answers,   \* of the server, not dispatched yet
    sent,      \* subscriptions asked for on this socket and not cancelled on it
    failed,    \* subscriptions of calls that raised while this socket was up
    raced,     \* unsubscribed before the startup request, or across two sockets
    calls      \* made so far

runVars == <<run, socket, open, ready, stop>>
slotVars == <<pendErr, pendAck, ackKeys>>
wireVars == <<answers, sent, raced>>
vars == <<runVars, slotVars, wireVars, listed, req, failed, calls>>

-----------------------------------------------------------------------------
(* Subscriptions.                                                          *)

\* expand
Expand(s) == IF s.type = "*" THEN {[s EXCEPT !.type = t] : t \in Types[s.topic]} ELSE {s}
Entries(S) == UNION {Expand(s) : s \in S}

\* matches_unsubscribe_request
Matches(s, u) ==
    /\ s.topic = u.topic
    /\ u.type \in {"*", s.type}
    /\ u.filters \in {"none", s.filters}
Matching(S, U) == {s \in S : \E u \in U : Matches(s, u)}

\* _expand_real_time_data_unsubscribe_requests: one request per listed type.
UnsubscribeRequests(S, U) ==
    {u \in U : u.type # "*"}
    \cup UNION {{[u EXCEPT !.type = s.type] : s \in Matching(S, {u})} : u \in {v \in U : v.type = "*"}}

AckedTopics == {"crypto_prices", "crypto_prices_chainlink", "equity_prices"}
\* _subscription_ack_key: the topic and the symbol of the filter, if any.
AckKeys(S) == {<<s.topic, s.filters>> : s \in {t \in S : t.topic \in AckedTopics}}

\* _subscription_ack_key_matches
AckMatches(expected, ack) ==
    /\ \/ expected[1] = ack[1]
       \/ expected[1] = "crypto_prices_chainlink" /\ ack[1] = "crypto_prices"
    /\ expected[2] = "none" \/ ack[2] \in {"none", expected[2]}

-----------------------------------------------------------------------------
Idle == [pc |-> "idle", action |-> "none", args |-> {}, todo |-> {}, cur |-> {},
         sock |-> 0, first |-> 0, err |-> "none", ack |-> 0, recovered |-> FALSE]

Waiting == {"waiting", "grace", "reconnecting", "recovering"}
Busy(r) == req[r].pc # "idle"

\* _websocket is not None
HasWebsocket == run \in {"opening", "startup", "serving", "leaving"}
Replaced(r) == ~HasWebsocket \/ socket # req[r].sock

Init ==
    /\ run = "backoff" /\ socket = 0 /\ open = FALSE /\ ready = FALSE /\ stop = FALSE
    /\ listed \in {Entries(S) : S \in InitialSubscriptions}
    /\ pendErr = Nobody /\ pendAck = Nobody /\ ackKeys = {}
    /\ req = [r \in Requesters |-> Idle]
    /\ answers = {} /\ sent = {} /\ failed = {} /\ raced = {}
    /\ calls = 0

-----------------------------------------------------------------------------
(* subscribe and unsubscribe up to their first await. No caller holds a    *)
(* connection before _start has returned, which waits for ready.           *)

LockFree == \A c \in Callers : ~Busy(c)
Opened == ready \/ socket > 1

NewRequest(action, args, cur) ==
    [Idle EXCEPT !.pc = "sending", !.action = action, !.args = args,
                 !.cur = cur, !.todo = IF action = "unsubscribe" THEN args \ cur ELSE {}]

Subscribe(c) ==
    /\ LockFree /\ Opened /\ calls < MaxCalls
    /\ \E S \in SubscribeArguments :
         LET payload == {s \in S : ~(Expand(s) \subseteq listed)}
         IN  /\ payload # {}
             /\ req' = [req EXCEPT ![c] = NewRequest("subscribe", payload, payload)]
    /\ calls' = calls + 1
    /\ UNCHANGED <<runVars, slotVars, wireVars, listed, failed>>

Unsubscribe(c) ==
    /\ LockFree /\ Opened /\ calls < MaxCalls
    /\ \E U \in UnsubscribeArguments :
         LET requests == UnsubscribeRequests(listed, U)
         IN  \E u \in requests :
               req' = [req EXCEPT ![c] = NewRequest("unsubscribe", requests, {u})]
    /\ calls' = calls + 1
    /\ UNCHANGED <<runVars, slotVars, wireVars, listed, failed>>

-----------------------------------------------------------------------------
(* _send_subscription_request.                                             *)

\* Mutant of FreeSlots: the acknowledgement stays pending.
FreeErrorSlot(r) ==
    pendErr' = (IF pendErr = r THEN Nobody ELSE pendErr) /\ UNCHANGED <<pendAck, ackKeys>>

\* Its finally: only what is still its own.
FreeSlots(r) ==
    /\ pendErr' = IF pendErr = r THEN Nobody ELSE pendErr
    /\ pendAck' = IF pendAck = r THEN Nobody ELSE pendAck
    /\ ackKeys' = IF pendAck = r THEN {} ELSE ackKeys

\* It returns: to the rest of subscribe, of unsubscribe, or of
\* _after_connected_tasks_started.
RequestReturns(r) ==
    LET q == req[r]
    IN  \/ /\ r = RunTask
           /\ run' = "serving" /\ ready' = TRUE
           /\ req' = [req EXCEPT ![r] = Idle]
           /\ UNCHANGED <<socket, open, stop, listed, raced>>
        \/ /\ r # RunTask /\ q.action = "subscribe"
           /\ listed' = listed \cup Entries(q.args)
           /\ req' = [req EXCEPT ![r] = Idle]
           /\ UNCHANGED <<runVars, raced>>
        \/ /\ r # RunTask /\ q.action = "unsubscribe" /\ q.todo # {}
           /\ \E u \in q.todo :
                req' = [req EXCEPT ![r] =
                          [Idle EXCEPT !.pc = "sending", !.action = q.action, !.args = q.args,
                                       !.cur = {u}, !.todo = q.todo \ {u}, !.first = q.first]]
           /\ UNCHANGED <<runVars, listed, raced>>
        \/ /\ r # RunTask /\ q.action = "unsubscribe" /\ q.todo = {}
           /\ listed' = listed \ Matching(listed, q.args)
           /\ raced' = IF HasWebsocket /\ q.first # socket
                       THEN raced \cup Matching(listed, q.args) ELSE raced
           /\ req' = [req EXCEPT ![r] = Idle]
           /\ UNCHANGED runVars

\* It raises: a call fails and lists nothing, a startup ends the connection.
RequestRaises(r) ==
    /\ req' = [req EXCEPT ![r] = Idle]
    /\ IF r = RunTask
       THEN /\ run' = "leaving" /\ ready' = TRUE /\ open' = FALSE
            /\ UNCHANGED <<socket, stop, failed>>
       ELSE /\ failed' = failed \cup Entries(req[r].args) \cup Matching(listed, req[r].args)
            /\ UNCHANGED runVars
    /\ FreeSlots(r)
    /\ UNCHANGED <<wireVars, listed, calls>>

\* Before its next round; the finally has run.
Again(r, recovered) ==
    /\ req' = [req EXCEPT ![r] = [@ EXCEPT !.pc = "sending", !.err = "none", !.ack = 0,
                                           !.recovered = recovered]]
    /\ FreeSlots(r)
    /\ UNCHANGED <<runVars, wireVars, listed, failed, calls>>

\* What the server sends back: an acknowledgement per key, an error, the error
\* of a connection it has forgotten ("connection_id_fk"), or nothing.
Reply(r, keys) ==
    \/ "accept" \in Replies /\ answers' = answers \cup {[kind |-> "ack", key |-> k, to |-> r] : k \in keys}
    \/ \E kind \in {"refuse", "stale"} \cap Replies :
         answers' = answers \cup {[kind |-> kind, key |-> <<"none", "none">>, to |-> r]}
    \/ "silent" \in Replies /\ answers' = answers

\* Mutant of TakeAckSlot: a slot in use is left to its owner.
KeepAckSlot(r, keys) ==
    IF keys # {} /\ pendAck = Nobody THEN pendAck' = r /\ ackKeys' = keys
    ELSE UNCHANGED <<pendAck, ackKeys>>

\* Only a subscribe of a topic that is acknowledged has a future for it.
TakeAckSlot(r, keys) ==
    IF keys # {} THEN pendAck' = r /\ ackKeys' = keys ELSE UNCHANGED <<pendAck, ackKeys>>

\* One round up to its wait: the futures replace those in the slots, and the
\* frame is on the wire, or send() raises ConnectionClosed.
Send(r) ==
    LET q == req[r]
        keys == IF q.action = "subscribe" THEN AckKeys(q.cur) ELSE {}
        first == IF q.first = 0 THEN socket ELSE q.first
    IN  /\ q.pc = "sending" /\ HasWebsocket
        /\ pendErr' = r
        /\ TakeAckSlot(r, keys)
        /\ IF open
           THEN /\ Reply(r, keys)
                /\ sent' = IF q.action = "subscribe" THEN sent \cup Entries(q.cur)
                           ELSE sent \ Matching(sent, q.cur)
                /\ raced' = IF q.action = "unsubscribe" /\ run = "opening"
                            THEN raced \cup Matching(listed, q.cur) ELSE raced
                /\ req' = [req EXCEPT ![r] = [@ EXCEPT !.pc = IF keys # {} THEN "waiting" ELSE "grace",
                                                       !.sock = socket, !.first = first]]
           ELSE /\ req' = [req EXCEPT ![r] = [@ EXCEPT !.pc = "reconnecting", !.sock = socket,
                                                       !.first = first]]
                /\ UNCHANGED wireVars
        /\ UNCHANGED <<runVars, listed, failed, calls>>

\* Without a websocket there is nothing to send: the next startup does it.
SkipSend(r) ==
    /\ req[r].pc = "sending" /\ ~HasWebsocket
    /\ RequestReturns(r)
    /\ UNCHANGED <<slotVars, answers, sent, failed, calls>>

\* Acknowledged, or no error within the grace.
Answered(r) ==
    /\ req[r].err = "none"
    /\ \/ req[r].pc = "waiting" /\ req[r].ack # 0
       \/ req[r].pc = "grace"
    /\ RequestReturns(r)
    /\ FreeSlots(r)
    /\ UNCHANGED <<answers, sent, failed, calls>>

\* The error of a forgotten connection is recovered from once, by closing it.
RecoverStale(r) ==
    /\ req[r].pc \in {"waiting", "grace"}
    /\ req[r].err = "stale" /\ ~req[r].recovered
    /\ req' = [req EXCEPT ![r].pc = "recovering"]
    /\ open' = (open /\ socket # req[r].sock)
    /\ UNCHANGED <<run, socket, ready, stop, slotVars, wireVars, listed, failed, calls>>

Refused(r) ==
    /\ req[r].pc \in {"waiting", "grace"}
    /\ req[r].err = "refuse" \/ (req[r].err = "stale" /\ req[r].recovered)
    /\ RequestRaises(r)

\* Mutant of AckTimeout: it always sends again.
AckTimeoutAgain(r) ==
    /\ req[r].pc = "waiting" /\ req[r].ack = 0 /\ req[r].err = "none"
    /\ Again(r, req[r].recovered)

\* DEFAULT_SUBSCRIPTION_ACK_TIMEOUT_SECONDS: on another socket by now, it is
\* sent again; on the same one SubscriptionAckTimeoutError.
AckTimeout(r) ==
    /\ req[r].pc = "waiting" /\ req[r].ack = 0 /\ req[r].err = "none"
    /\ AnswersInTime => answers = {}
    /\ IF Replaced(r) THEN Again(r, req[r].recovered) ELSE RequestRaises(r)

\* is_reconnected, polled after ConnectionClosed.
Reconnected(r) ==
    /\ req[r].pc = "reconnecting" /\ Replaced(r)
    /\ Again(r, req[r].recovered)

\* _recover_stale_subscription_connection. ready may be left from before, and
\* _connected is still set while the tasks of a lost connection are being ended.
Recovered(r) ==
    /\ req[r].pc = "recovering"
    /\ HasWebsocket /\ socket # req[r].sock /\ ready
    /\ Again(r, TRUE)

\* Neither happens in time, and for the run task neither can.
NoNewConnection(r) ==
    /\ req[r].pc \in {"reconnecting", "recovering"}
    /\ RequestRaises(r)

WaitStep(r) ==
    \/ Answered(r) \/ RecoverStale(r) \/ Refused(r)
    \/ AckTimeout(r) \/ Reconnected(r) \/ Recovered(r) \/ NoNewConnection(r)

-----------------------------------------------------------------------------
(* _dispatch_message, while a processor runs: errors and acknowledgements  *)
(* are credited to whoever's futures are in the slots.                     *)

\* The server acknowledges a chainlink price under either topic.
AckForms(key) ==
    {key} \cup IF key[1] = "crypto_prices_chainlink" THEN {<<"crypto_prices", key[2]>>} ELSE {}

DispatchError(m) ==
    /\ m.kind # "ack"
    /\ req' = IF pendErr # Nobody /\ req[pendErr].err = "none"
              THEN [req EXCEPT ![pendErr].err = m.kind] ELSE req
    /\ UNCHANGED ackKeys

DispatchAck(m) ==
    /\ m.kind = "ack"
    /\ \E form \in AckForms(m.key) :
         LET matched == {k \in ackKeys : AckMatches(k, form)}
         IN  IF pendAck # Nobody /\ req[pendAck].ack = 0 /\ matched # {}
             THEN /\ ackKeys' = ackKeys \ matched
                  /\ req' = IF ackKeys \subseteq matched
                            THEN [req EXCEPT ![pendAck].ack = socket] ELSE req
             ELSE UNCHANGED <<ackKeys, req>>

Dispatch ==
    /\ run \in {"startup", "serving"}
    /\ \E m \in answers :
         /\ answers' = answers \ {m}
         /\ DispatchError(m) \/ DispatchAck(m)
    /\ UNCHANGED <<runVars, pendErr, pendAck, sent, raced, listed, failed, calls>>

-----------------------------------------------------------------------------
(* The run task around a request of its own.                               *)

\* What a caller does within the back-off: all but waiting for an answer that
\* has not come, or for the recovery.
Shortly(c) ==
    \/ req[c].pc \in {"grace", "reconnecting"}
    \/ req[c].pc = "waiting" /\ (req[c].ack # 0 \/ req[c].err # "none")

\* A new socket, a new queue.
Connect ==
    /\ run = "backoff" /\ ~stop /\ socket < MaxSockets
    /\ BackoffOutlastsGrace => \A c \in Callers : ~Shortly(c)
    /\ run' = "opening" /\ socket' = socket + 1 /\ open' = TRUE
    /\ answers' = {} /\ sent' = {} /\ failed' = {} /\ raced' = {}
    /\ UNCHANGED <<ready, stop, slotVars, listed, req, calls>>

\* Mutant of StartupBegins: nothing is asked for again on a new socket.
ForgetStartup ==
    /\ run = "opening"
    /\ ready' = TRUE /\ run' = "serving"
    /\ UNCHANGED <<socket, open, stop, slotVars, wireVars, listed, req, failed, calls>>

\* _after_connected_tasks_started, when the lifecycle callbacks have returned.
StartupBegins ==
    /\ run = "opening"
    /\ IF listed = {}
       THEN ready' = TRUE /\ run' = "serving" /\ UNCHANGED req
       ELSE /\ ready' = FALSE /\ run' = "startup"
            /\ req' = [req EXCEPT ![RunTask] = NewRequest("subscribe", listed, listed)]
    /\ UNCHANGED <<socket, open, stop, slotVars, wireVars, listed, failed, calls>>

\* The server, the network or an overflow of the queue ends the socket.
SocketLost ==
    /\ open /\ open' = FALSE
    /\ UNCHANGED <<run, socket, ready, stop, slotVars, wireVars, listed, req, failed, calls>>

ReaderEnded ==
    /\ run = "serving" /\ ~open
    /\ run' = "leaving"
    /\ UNCHANGED <<socket, open, ready, stop, slotVars, wireVars, listed, req, failed, calls>>

\* on_disconnect has returned; only then _websocket is None.
Disconnected ==
    /\ run = "leaving"
    /\ run' = IF stop THEN "done" ELSE "backoff"
    /\ UNCHANGED <<socket, open, ready, stop, slotVars, wireVars, listed, req, failed, calls>>

\* graceful_close, close or abort, by a task that is no requester.
Close ==
    /\ ~stop /\ Opened
    /\ stop' = TRUE
    /\ UNCHANGED <<run, socket, open, ready, slotVars, wireVars, listed, req, failed, calls>>

\* Mutant of CancelRun: the startup request outlives it.
CancelRunOnly ==
    /\ stop /\ run \in {"backoff", "opening", "startup", "serving"}
    /\ run' = IF run = "backoff" THEN "done" ELSE "leaving"
    /\ open' = FALSE
    /\ UNCHANGED <<socket, ready, stop, slotVars, wireVars, listed, req, failed, calls>>

\* _wait_for_run_task has waited long enough.
CancelRun ==
    /\ stop /\ run \in {"backoff", "opening", "startup", "serving"}
    /\ run' = IF run = "backoff" THEN "done" ELSE "leaving"
    /\ open' = FALSE
    /\ ready' = (ready \/ run = "startup")
    /\ req' = [req EXCEPT ![RunTask] = Idle]
    /\ FreeSlots(RunTask)
    /\ UNCHANGED <<socket, stop, wireVars, listed, failed, calls>>

RunStep == Connect \/ StartupBegins \/ ReaderEnded \/ Disconnected \/ CancelRun

\* From composing a request to writing its frame no await gives way.
Sending == {r \in Requesters : req[r].pc = "sending"}

SendStep == \E r \in Sending : Send(r) \/ SkipSend(r)

Next ==
    \/ SendStep
    \/ /\ Sending = {}
       /\ \/ \E c \in Callers : Subscribe(c) \/ Unsubscribe(c)
          \/ \E r \in Requesters : WaitStep(r)
          \/ Dispatch \/ RunStep \/ SocketLost \/ Close

Spec == Init /\ [][Next]_vars

\* Tasks that can run do, timeouts fire, and frames that arrived are dispatched.
FairSpec ==
    /\ Spec
    /\ WF_vars(SendStep)
    /\ \A r \in Requesters : WF_vars(Sending = {} /\ WaitStep(r))
    /\ WF_vars(Sending = {} /\ RunStep) /\ WF_vars(Sending = {} /\ Dispatch)

-----------------------------------------------------------------------------
TypeOK ==
    /\ run \in {"backoff", "opening", "startup", "serving", "leaving", "done"}
    /\ socket \in 0..MaxSockets
    /\ open \in BOOLEAN /\ ready \in BOOLEAN /\ stop \in BOOLEAN
    /\ pendErr \in Requesters \cup {Nobody} /\ pendAck \in Requesters \cup {Nobody}
    /\ \A r \in Requesters :
         /\ req[r].pc \in {"idle", "sending"} \cup Waiting
         /\ req[r].err \in {"none", "refuse", "stale"}
         /\ req[r].sock \in 0..socket /\ req[r].ack \in 0..socket
    /\ run = "startup" <=> Busy(RunTask)
    /\ calls \in 0..MaxCalls

\* While a connection serves and no call is under way, the client lists what it
\* asked for on this socket, whatever was lost, retried or recovered on the way.
\* It is out of step only where a call raised halfway, or where unsubscribe sent
\* its requests before the startup request, or on two sockets (2269, 2300, 2357).
ListedIsAskedFor ==
    run = "serving" /\ open /\ LockFree =>
        (listed \ sent) \cup (sent \ listed) \subseteq failed \cup raced

\* A request is acknowledged only by frames of the socket it was sent on: a
\* caller whose socket was replaced is not told that its subscription holds by
\* what answers the startup request of the next one (2415-2432, 2454-2466).
AckOfItsOwnSocket == \A r \in Requesters : req[r].ack \in {0, req[r].sock}

\* A request that is over leaves nothing behind that swallows the server's next
\* error, or takes its next acknowledgement (2567-2575).
NoSlotOutlivesItsRequest ==
    /\ pendErr # Nobody => req[pendErr].pc \in Waiting
    /\ pendAck # Nobody => req[pendAck].pc \in Waiting
    /\ pendAck = Nobody => ackKeys = {}

\* As long as no new socket replaces the one there is, every call and every
\* startup ends, whether the server answers, refuses, forgets or is silent: no
\* wait is without a timeout, and what failed is not sent again on the same socket
\* (2443-2575). Nothing more holds of a call: a request that finds its socket
\* replaced is sent again, in a loop without a bound (2497), so a server that
\* drops every socket before it answers keeps a call of subscribe for ever. For
\* the run task it says that every startup ends, as no socket is replaced in it.
RequestsEnd ==
    \A r \in Requesters, s \in 0..MaxSockets :
        Busy(r) /\ socket = s ~> ~Busy(r) \/ socket # s

\* README: "dynamically subscribe() and unsubscribe() without reconnecting". With
\* a server that acknowledges everything in time, no startup request is given up
\* on a socket that still works (README.md:253).
SubscribingNeverReconnects ==
    [][run = "startup" /\ run' = "leaving" /\ ~stop => ~open]_vars

=============================================================================
