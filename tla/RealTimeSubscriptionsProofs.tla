-------------------- MODULE RealTimeSubscriptionsProofs --------------------
(***************************************************************************)
(* For any callers, subscriptions, replies and bounds: types, the release  *)
(* of the shared futures, that an acknowledgement never comes from another *)
(* socket than the request's, and that the list is what was asked for.     *)
(***************************************************************************)
EXTENDS RealTimeSubscriptions, TLAPS

Fields == {"pc", "action", "args", "todo", "cur", "sock", "first", "err", "ack", "recovered"}

Shape == DOMAIN req = Requesters /\ \A r \in Requesters : DOMAIN req[r] = Fields

AnswersTyped == \A m \in answers : m.kind \in {"ack", "refuse", "stale"}

\* A request that is composed has no answer yet.
NothingYet == \A r \in Requesters : req[r].pc = "sending" => req[r].ack = 0

\* With an acknowledgement in flight, the slot is not that of an earlier socket:
\* what it acknowledges was sent on this socket and took the slot.
SlotOfThisSocket ==
    \A m \in answers : m.kind = "ack" => pendAck = Nobody \/ req[pendAck].sock = socket

IInv ==
    /\ Shape /\ TypeOK /\ AnswersTyped
    /\ NoSlotOutlivesItsRequest
    /\ AckOfItsOwnSocket /\ NothingYet /\ SlotOfThisSocket

-----------------------------------------------------------------------------
LEMMA IdleFields == DOMAIN Idle = Fields
BY DEF Idle, Fields

LEMMA RunTaskIsNoCaller == RunTask \in Requesters /\ \A c \in Callers : c \in Requesters /\ c # RunTask /\ c # Nobody
BY RequestersAssumption DEF Requesters

\* The initial states.
LEMMA InitHolds == Init => IInv
<1> SUFFICES ASSUME Init PROVE IInv
  OBVIOUS
<1>1. Shape
  BY IdleFields DEF Init, Shape
<1>2. TypeOK
  <2>1. \A r \in Requesters : req[r].pc = "idle" /\ req[r].err = "none" /\ req[r].sock = 0 /\ req[r].ack = 0
    BY DEF Init, Idle
  <2>2. run = "backoff" /\ socket \in 0..MaxSockets /\ calls \in 0..MaxCalls /\ 0 \in 0..socket
    BY BoundsAssumption DEF Init
  <2>3. open \in BOOLEAN /\ ready \in BOOLEAN /\ stop \in BOOLEAN
    BY DEF Init
  <2>4. pendErr \in Requesters \cup {Nobody} /\ pendAck \in Requesters \cup {Nobody}
    BY DEF Init
  <2>5. run = "startup" <=> Busy(RunTask)
    BY <2>1, <2>2, RunTaskIsNoCaller DEF Busy
  <2> QED
    BY <2>1, <2>2, <2>3, <2>4, <2>5 DEF TypeOK
<1>3. AnswersTyped /\ NoSlotOutlivesItsRequest /\ AckOfItsOwnSocket /\ NothingYet /\ SlotOfThisSocket
  BY DEF Init, AnswersTyped, NoSlotOutlivesItsRequest, AckOfItsOwnSocket, NothingYet, SlotOfThisSocket, Idle
<1> QED
  BY <1>1, <1>2, <1>3 DEF IInv

-----------------------------------------------------------------------------
(* A step changes the locals of at most one requester r, to q. What it must *)
(* respect is said here once.                                              *)

RunStates == {"backoff", "opening", "startup", "serving", "leaving", "done"}

LocalsOK(q, s) ==
    /\ DOMAIN q = Fields
    /\ q.pc \in {"idle", "sending"} \cup Waiting
    /\ q.err \in {"none", "refuse", "stale"}
    /\ q.sock \in 0..s /\ q.ack \in {0, q.sock}
    /\ q.pc = "sending" => q.ack = 0

\* The run task and the bounds.
RunKept ==
    /\ run' \in RunStates /\ socket' \in 0..MaxSockets /\ socket' >= socket
    /\ open' \in BOOLEAN /\ ready' \in BOOLEAN /\ stop' \in BOOLEAN
    /\ calls' \in 0..MaxCalls

LEMMA LocalsOfIInv == IInv => \A r \in Requesters : LocalsOK(req[r], socket)
BY DEF IInv, Shape, TypeOK, AckOfItsOwnSocket, NothingYet, LocalsOK

LEMMA StepKeeps ==
    ASSUME IInv, RunKept, NEW r \in Requesters, NEW q, LocalsOK(q, socket'),
           req' = [req EXCEPT ![r] = q],
           IF r = RunTask THEN run' = "startup" <=> q.pc # "idle"
                          ELSE run' = "startup" <=> run = "startup",
           pendErr' \in {pendErr, Nobody} \/ pendErr' = r,
           pendErr' = r => q.pc \in Waiting,
           pendAck' \in {pendAck, Nobody} \/ pendAck' = r,
           pendAck' = r => q.pc \in Waiting,
           pendAck' = Nobody => ackKeys' = {},
           AnswersTyped',
           \A m \in answers' : m.kind = "ack" =>
              pendAck' = Nobody \/ (IF pendAck' = r THEN q ELSE req[pendAck']).sock = socket'
    PROVE  IInv'
<1>1. DOMAIN req = Requesters /\ \A c \in Requesters : LocalsOK(req[c], socket)
  BY LocalsOfIInv DEF IInv, Shape
<1>2. req'[r] = q /\ \A c \in Requesters \ {r} : req'[c] = req[c]
  BY <1>1
<1>3. socket \in Nat /\ socket' \in Nat /\ 0..socket \subseteq 0..socket'
  BY BoundsAssumption DEF IInv, TypeOK, RunKept
<1>4. \A c \in Requesters : LocalsOK(req'[c], socket')
  BY <1>1, <1>2, <1>3 DEF LocalsOK
<1>5. Shape'
  BY <1>1, <1>4 DEF Shape, LocalsOK
<1>6. pendErr' \in Requesters \cup {Nobody} /\ pendAck' \in Requesters \cup {Nobody}
  BY DEF IInv, TypeOK
<1>7. run' = "startup" <=> req'[RunTask].pc # "idle"
  <2>1. run = "startup" <=> req[RunTask].pc # "idle"
    BY DEF IInv, TypeOK, Busy
  <2>2. CASE r = RunTask
    BY <2>2, <1>2
  <2>3. CASE r # RunTask
    BY <2>1, <2>3, <1>2, RunTaskIsNoCaller
  <2> QED
    BY <2>2, <2>3
<1>8. \A c \in Requesters : 0..socket' = 0..socket' /\ req'[c].ack \in 0..socket'
  BY <1>3, <1>4 DEF LocalsOK
<1>9. TypeOK'
  BY <1>4, <1>6, <1>7, <1>8 DEF TypeOK, RunKept, RunStates, LocalsOK, Busy
<1>10. NoSlotOutlivesItsRequest'
  <2>1. pendErr' # Nobody => req'[pendErr'].pc \in Waiting
    BY <1>2, <1>6 DEF IInv, TypeOK, NoSlotOutlivesItsRequest
  <2>2. pendAck' # Nobody => req'[pendAck'].pc \in Waiting
    BY <1>2, <1>6 DEF IInv, TypeOK, NoSlotOutlivesItsRequest
  <2> QED
    BY <2>1, <2>2 DEF NoSlotOutlivesItsRequest
<1>11. AckOfItsOwnSocket' /\ NothingYet'
  BY <1>4 DEF AckOfItsOwnSocket, NothingYet, LocalsOK
<1>12. SlotOfThisSocket'
  BY <1>2, <1>6 DEF SlotOfThisSocket
<1> QED
  BY <1>5, <1>9, <1>10, <1>11, <1>12 DEF IInv

\* Steps that touch no locals and give no slot away.
LEMMA FrameKeeps ==
    ASSUME IInv, RunKept, UNCHANGED <<req, pendErr, pendAck>>,
           UNCHANGED ackKeys \/ (pendAck = Nobody => ackKeys' = {}),
           run' = "startup" <=> run = "startup",
           answers' = {} \/ (answers' \subseteq answers /\ UNCHANGED socket)
    PROVE  IInv'
<1>1. \A c \in Requesters : LocalsOK(req[c], socket) /\ req[c].sock \in 0..socket' /\ req[c].ack \in 0..socket'
  BY LocalsOfIInv, BoundsAssumption DEF LocalsOK, RunKept, IInv, TypeOK
<1>2. Shape' /\ NoSlotOutlivesItsRequest' /\ AckOfItsOwnSocket' /\ NothingYet'
  BY DEF IInv, Shape, NoSlotOutlivesItsRequest, AckOfItsOwnSocket, NothingYet
<1>3. TypeOK'
  BY <1>1 DEF IInv, TypeOK, RunKept, RunStates, Busy
<1>4. AnswersTyped' /\ SlotOfThisSocket'
  BY DEF IInv, AnswersTyped, SlotOfThisSocket
<1> QED
  BY <1>2, <1>3, <1>4 DEF IInv

-----------------------------------------------------------------------------
(* A requester's own steps.                                                *)

LEMMA RunUnchangedKept == IInv /\ UNCHANGED <<runVars, calls>> => RunKept
BY BoundsAssumption DEF IInv, TypeOK, RunKept, RunStates, runVars

\* While it is not idle, the run task is in startup.
LEMMA BusyRun == IInv /\ Busy(RunTask) => run = "startup"
BY DEF IInv, TypeOK

\* The finally frees what was its own.
LEMMA Freed ==
    ASSUME NEW r \in Requesters, FreeSlots(r), IInv
    PROVE  /\ pendErr' \in {pendErr, Nobody} /\ pendErr' # r
           /\ pendAck' \in {pendAck, Nobody} /\ pendAck' # r
           /\ pendAck' = Nobody => ackKeys' = {}
BY RequestersAssumption DEF FreeSlots, IInv, NoSlotOutlivesItsRequest, Requesters

\* A slot that is not taken over keeps to the socket of what is in flight.
LEMMA SlotsLeft ==
    ASSUME IInv, NEW r \in Requesters, NEW q, pendAck' \in {pendAck, Nobody}, pendAck' # r,
           UNCHANGED <<answers, socket>>
    PROVE  /\ AnswersTyped'
           /\ \A m \in answers' : m.kind = "ack" =>
                pendAck' = Nobody \/ (IF pendAck' = r THEN q ELSE req[pendAck']).sock = socket'
BY DEF IInv, AnswersTyped, SlotOfThisSocket

LEMMA RaisesKeeps ==
    ASSUME IInv, NEW r \in Requesters, Busy(r), RequestRaises(r)
    PROVE  IInv'
<1>1. req' = [req EXCEPT ![r] = Idle] /\ UNCHANGED <<answers, socket, calls>>
  BY DEF RequestRaises, wireVars, runVars
<1>2. RunKept /\ (IF r = RunTask THEN run' = "leaving" ELSE run' = run)
  <2>1. CASE r = RunTask
    <3>1. run' = "leaving" /\ ready' \in BOOLEAN /\ open' \in BOOLEAN /\ stop' = stop
      BY <2>1 DEF RequestRaises
    <3>2. socket' = socket /\ calls' = calls
      BY <1>1
    <3>3. RunKept
      BY <3>1, <3>2, BoundsAssumption DEF RunKept, RunStates, IInv, TypeOK
    <3> QED
      BY <2>1, <3>1, <3>3
  <2>2. CASE r # RunTask
    BY <2>2, <1>1, RunUnchangedKept DEF RequestRaises, runVars
  <2> QED
    BY <2>1, <2>2
<1>3. LocalsOK(Idle, socket') /\ Idle.pc = "idle" /\ Idle.pc \notin Waiting
  BY IdleFields, <1>2 DEF Idle, LocalsOK, Waiting, RunKept
<1>4. FreeSlots(r)
  BY DEF RequestRaises
<1>5. /\ pendErr' \in {pendErr, Nobody} /\ pendErr' # r
      /\ pendAck' \in {pendAck, Nobody} /\ pendAck' # r
      /\ pendAck' = Nobody => ackKeys' = {}
  BY <1>4, Freed
<1>6. /\ AnswersTyped'
      /\ \A m \in answers' : m.kind = "ack" =>
           pendAck' = Nobody \/ (IF pendAck' = r THEN Idle ELSE req[pendAck']).sock = socket'
  BY <1>1, <1>5, SlotsLeft
<1>7. IF r = RunTask THEN run' = "startup" <=> Idle.pc # "idle"
                     ELSE run' = "startup" <=> run = "startup"
  BY <1>2, <1>3
<1> QED
  BY <1>1, <1>2, <1>3, <1>5, <1>6, <1>7, StepKeeps

LEMMA AgainKeeps ==
    ASSUME IInv, NEW r \in Requesters, Busy(r), NEW b, Again(r, b)
    PROVE  IInv'
<1> DEFINE q == [req[r] EXCEPT !.pc = "sending", !.err = "none", !.ack = 0, !.recovered = b]
<1>1. req' = [req EXCEPT ![r] = q] /\ UNCHANGED <<answers, socket, run, calls>>
  BY DEF Again, wireVars, runVars
<1>2. RunKept
  BY RunUnchangedKept DEF Again
<1>3. LocalsOK(q, socket') /\ q.pc = "sending"
  BY <1>1, LocalsOfIInv DEF LocalsOK, Fields
<1>4. r = RunTask => run = "startup"
  BY BusyRun
<1>5. FreeSlots(r)
  BY DEF Again
<1> HIDE DEF q
<1> QED
  BY <1>1, <1>2, <1>3, <1>4, <1>5, Freed, SlotsLeft, StepKeeps

\* What a request that returned leaves of its locals: nothing, or the next of an
\* unsubscribe.
LEMMA Returns ==
    ASSUME IInv, NEW r \in Requesters, Busy(r), RequestReturns(r), UNCHANGED calls
    PROVE  /\ RunKept /\ UNCHANGED socket
           /\ \E q : /\ req' = [req EXCEPT ![r] = q] /\ LocalsOK(q, socket') /\ q.pc \notin Waiting
                     /\ IF r = RunTask THEN run' = "startup" <=> q.pc # "idle"
                                       ELSE run' = "startup" <=> run = "startup"
<1>1. CASE r = RunTask /\ req' = [req EXCEPT ![r] = Idle] /\ run' = "serving" /\ ready' = TRUE
           /\ UNCHANGED <<socket, open, stop>>
  <2>1. RunKept
    BY <1>1, BoundsAssumption DEF IInv, TypeOK, RunKept, RunStates
  <2>2. LocalsOK(Idle, socket') /\ Idle.pc = "idle" /\ Idle.pc \notin Waiting
    BY IdleFields, <2>1 DEF Idle, LocalsOK, Waiting, RunKept
  <2> QED
    BY <1>1, <2>1, <2>2
<1>2. CASE r # RunTask /\ req' = [req EXCEPT ![r] = Idle] /\ UNCHANGED runVars
  <2>1. RunKept /\ UNCHANGED <<run, socket>>
    BY <1>2, RunUnchangedKept DEF runVars
  <2>2. LocalsOK(Idle, socket') /\ Idle.pc \notin Waiting
    BY IdleFields, <2>1 DEF Idle, LocalsOK, Waiting, RunKept
  <2> QED
    BY <1>2, <2>1, <2>2
<1>3. ASSUME r # RunTask, UNCHANGED runVars, NEW u \in req[r].todo,
             req' = [req EXCEPT ![r] =
                       [Idle EXCEPT !.pc = "sending", !.action = req[r].action, !.args = req[r].args,
                                    !.cur = {u}, !.todo = req[r].todo \ {u}, !.first = req[r].first]]
      PROVE  RunKept /\ UNCHANGED socket
             /\ \E q : /\ req' = [req EXCEPT ![r] = q] /\ LocalsOK(q, socket') /\ q.pc \notin Waiting
                       /\ run' = "startup" <=> run = "startup"
  <2> DEFINE q == [Idle EXCEPT !.pc = "sending", !.action = req[r].action, !.args = req[r].args,
                               !.cur = {u}, !.todo = req[r].todo \ {u}, !.first = req[r].first]
  <2>1. RunKept /\ UNCHANGED <<run, socket>>
    BY <1>3, RunUnchangedKept DEF runVars
  <2>2. LocalsOK(q, socket') /\ q.pc \notin Waiting
    BY IdleFields, <2>1 DEF Idle, LocalsOK, Waiting, RunKept, Fields
  <2>3. req' = [req EXCEPT ![r] = q]
    BY <1>3
  <2> HIDE DEF q
  <2> QED
    BY <2>1, <2>2, <2>3
<1> QED
  BY <1>1, <1>2, <1>3 DEF RequestReturns

-----------------------------------------------------------------------------
(* Each action keeps the invariant.                                        *)

LEMMA CallKeeps ==
    ASSUME IInv, NEW c \in Callers, Subscribe(c) \/ Unsubscribe(c)
    PROVE  IInv'
<1>1. PICK action, args, cur : req' = [req EXCEPT ![c] = NewRequest(action, args, cur)]
  BY DEF Subscribe, Unsubscribe
<1>2. UNCHANGED <<run, socket, open, ready, stop, answers, pendErr, pendAck, ackKeys>>
  BY DEF Subscribe, Unsubscribe, runVars, wireVars, slotVars
<1>3. LockFree /\ calls < MaxCalls /\ calls' = calls + 1
  BY DEF Subscribe, Unsubscribe
<1>4. RunKept
  BY <1>2, <1>3, BoundsAssumption DEF IInv, TypeOK, RunKept, RunStates
<1>5. LocalsOK(NewRequest(action, args, cur), socket')
  BY <1>4 DEF NewRequest, Idle, LocalsOK, Fields, RunKept
<1>6. c \in Requesters /\ c # RunTask /\ pendErr' # c /\ pendAck' # c
  BY <1>2, <1>3, RunTaskIsNoCaller DEF IInv, NoSlotOutlivesItsRequest, LockFree, Busy, Waiting
<1>7. pendAck' = Nobody => ackKeys' = {}
  BY <1>2 DEF IInv, NoSlotOutlivesItsRequest
<1> DEFINE q == NewRequest(action, args, cur)
<1>8. /\ AnswersTyped'
      /\ \A m \in answers' : m.kind = "ack" =>
           pendAck' = Nobody \/ (IF pendAck' = c THEN q ELSE req[pendAck']).sock = socket'
  BY <1>2, <1>6, SlotsLeft
<1> QED
  BY <1>1, <1>2, <1>4, <1>5, <1>6, <1>7, <1>8, StepKeeps

LEMMA SendKeeps ==
    ASSUME IInv, NEW r \in Requesters, Send(r)
    PROVE  IInv'
<1> DEFINE keys == IF req[r].action = "subscribe" THEN AckKeys(req[r].cur) ELSE {}
           first == IF req[r].first = 0 THEN socket ELSE req[r].first
           pc == IF ~open THEN "reconnecting" ELSE IF keys # {} THEN "waiting" ELSE "grace"
           q == [req[r] EXCEPT !.pc = pc, !.sock = socket, !.first = first]
<1>1. req[r].pc = "sending" /\ pendErr' = r /\ TakeAckSlot(r, keys) /\ UNCHANGED <<runVars, calls>>
  BY DEF Send
<1>2. req' = [req EXCEPT ![r] = q]
  BY DEF Send
<1>3. (open /\ Reply(r, keys)) \/ UNCHANGED answers
  BY DEF Send, wireVars
<1>4. RunKept /\ UNCHANGED <<run, socket>>
  BY <1>1, RunUnchangedKept DEF runVars
<1>5. LocalsOK(q, socket') /\ q.pc \in Waiting /\ q.sock = socket' /\ q.pc # "idle"
  BY <1>1, <1>4, LocalsOfIInv DEF LocalsOK, Fields, Waiting, RunKept
<1>6. pendAck # r
  BY <1>1, RequestersAssumption DEF IInv, NoSlotOutlivesItsRequest, Waiting, Requesters
<1>7. /\ pendAck' = pendAck \/ pendAck' = r
      /\ pendAck' = Nobody => ackKeys' = {}
      /\ keys # {} => pendAck' = r
  BY <1>1, RequestersAssumption DEF TakeAckSlot, IInv, NoSlotOutlivesItsRequest, Requesters
<1>8. r = RunTask => run = "startup"
  BY <1>1, BusyRun DEF Busy
<1>9. \A m \in answers' : m \in answers \/ (m.kind \in {"ack", "refuse", "stale"} /\ (m.kind = "ack" => keys # {}))
  BY <1>3 DEF Reply
<1>10. AnswersTyped'
  BY <1>9 DEF IInv, AnswersTyped
<1>11. \A m \in answers' : m.kind = "ack" =>
         pendAck' = Nobody \/ (IF pendAck' = r THEN q ELSE req[pendAck']).sock = socket'
  BY <1>4, <1>5, <1>7, <1>9 DEF IInv, SlotOfThisSocket
<1> HIDE DEF q, keys
<1> QED
  BY <1>1, <1>2, <1>4, <1>5, <1>7, <1>8, <1>10, <1>11, StepKeeps

LEMMA SkipKeeps ==
    ASSUME IInv, NEW r \in Requesters, SkipSend(r)
    PROVE  IInv'
<1>1. Busy(r) /\ req[r].pc = "sending" /\ RequestReturns(r) /\ UNCHANGED <<slotVars, answers, calls>>
  BY DEF SkipSend, Busy
<1>2. pendErr' # r /\ pendAck' # r /\ (pendAck' = Nobody => ackKeys' = {})
      /\ pendErr' = pendErr /\ pendAck' = pendAck
  BY <1>1, RequestersAssumption DEF slotVars, IInv, NoSlotOutlivesItsRequest, Waiting, Requesters
<1>3. PICK q : /\ req' = [req EXCEPT ![r] = q] /\ LocalsOK(q, socket') /\ q.pc \notin Waiting
               /\ IF r = RunTask THEN run' = "startup" <=> q.pc # "idle"
                                 ELSE run' = "startup" <=> run = "startup"
  BY <1>1, Returns
<1>4. RunKept /\ UNCHANGED socket
  BY <1>1, Returns
<1>5. /\ AnswersTyped'
      /\ \A m \in answers' : m.kind = "ack" =>
           pendAck' = Nobody \/ (IF pendAck' = r THEN q ELSE req[pendAck']).sock = socket'
  BY <1>1, <1>2, <1>4, SlotsLeft
<1> QED
  BY <1>2, <1>3, <1>4, <1>5, StepKeeps

LEMMA AnsweredKeeps ==
    ASSUME IInv, NEW r \in Requesters, Answered(r)
    PROVE  IInv'
<1>1. Busy(r) /\ RequestReturns(r) /\ FreeSlots(r) /\ UNCHANGED <<answers, calls>>
  BY DEF Answered, Busy
<1>2. /\ pendErr' \in {pendErr, Nobody} /\ pendErr' # r
      /\ pendAck' \in {pendAck, Nobody} /\ pendAck' # r
      /\ pendAck' = Nobody => ackKeys' = {}
  BY <1>1, Freed
<1>3. PICK q : /\ req' = [req EXCEPT ![r] = q] /\ LocalsOK(q, socket') /\ q.pc \notin Waiting
               /\ IF r = RunTask THEN run' = "startup" <=> q.pc # "idle"
                                 ELSE run' = "startup" <=> run = "startup"
  BY <1>1, Returns
<1>4. RunKept /\ UNCHANGED socket
  BY <1>1, Returns
<1>5. /\ AnswersTyped'
      /\ \A m \in answers' : m.kind = "ack" =>
           pendAck' = Nobody \/ (IF pendAck' = r THEN q ELSE req[pendAck']).sock = socket'
  BY <1>1, <1>2, <1>4, SlotsLeft
<1> QED
  BY <1>2, <1>3, <1>4, <1>5, StepKeeps

LEMMA RecoverStaleKeeps ==
    ASSUME IInv, NEW r \in Requesters, RecoverStale(r)
    PROVE  IInv'
<1> DEFINE q == [req[r] EXCEPT !.pc = "recovering"]
<1>1. req[r].pc \in Waiting /\ req' = [req EXCEPT ![r] = q]
      /\ UNCHANGED <<run, socket, ready, stop, pendErr, pendAck, ackKeys, answers, calls>>
  BY DEF RecoverStale, slotVars, wireVars, Waiting
<1>2. open' \in BOOLEAN
  BY DEF RecoverStale
<1>3. RunKept
  BY <1>1, <1>2, BoundsAssumption DEF IInv, TypeOK, RunKept, RunStates
<1>4. LocalsOK(q, socket') /\ q.pc \in Waiting /\ q.sock = req[r].sock /\ q.pc # "idle"
  BY <1>1, LocalsOfIInv DEF LocalsOK, Fields, Waiting
<1>5. r = RunTask => run = "startup"
  BY <1>1, BusyRun DEF Busy, Waiting
<1>6. AnswersTyped' /\ (pendAck' = Nobody => ackKeys' = {})
  BY <1>1 DEF IInv, AnswersTyped, NoSlotOutlivesItsRequest
<1>7. \A m \in answers' : m.kind = "ack" =>
        pendAck' = Nobody \/ (IF pendAck' = r THEN q ELSE req[pendAck']).sock = socket'
  BY <1>1, <1>4 DEF IInv, SlotOfThisSocket
<1> HIDE DEF q
<1> QED
  BY <1>1, <1>3, <1>4, <1>5, <1>6, <1>7, StepKeeps

LEMMA WaitKeeps ==
    ASSUME IInv, NEW r \in Requesters, WaitStep(r)
    PROVE  IInv'
<1>1. CASE Refused(r) \/ NoNewConnection(r)
  BY <1>1, RaisesKeeps DEF Refused, NoNewConnection, Busy
<1>2. CASE AckTimeout(r)
  <2>1. Busy(r) /\ (Again(r, req[r].recovered) \/ RequestRaises(r))
    BY <1>2 DEF AckTimeout, Busy
  <2> QED
    BY <2>1, RaisesKeeps, AgainKeeps
<1>3. CASE Reconnected(r) \/ Recovered(r)
  <2>1. Busy(r) /\ (Again(r, req[r].recovered) \/ Again(r, TRUE))
    BY <1>3 DEF Reconnected, Recovered, Busy
  <2> QED
    BY <2>1, AgainKeeps
<1> QED
  BY <1>1, <1>2, <1>3, AnsweredKeeps, RecoverStaleKeeps DEF WaitStep

\* A frame is credited to the slot's owner, whose socket it came from.
LEMMA DispatchKeeps ==
    ASSUME IInv, Dispatch
    PROVE  IInv'
<1>1. PICK m \in answers : answers' = answers \ {m} /\ (DispatchError(m) \/ DispatchAck(m))
  BY DEF Dispatch
<1>2. UNCHANGED <<runVars, pendErr, pendAck, calls>> /\ UNCHANGED <<run, socket>>
  BY DEF Dispatch, runVars
<1>3. RunKept
  BY <1>2, RunUnchangedKept
<1>4. m.kind \in {"ack", "refuse", "stale"} /\ AnswersTyped'
  BY <1>1 DEF IInv, AnswersTyped
<1>5. \A k \in answers' : k.kind = "ack" => pendAck = Nobody \/ req[pendAck].sock = socket
  BY <1>1 DEF IInv, SlotOfThisSocket
<1>6. pendAck = Nobody => ackKeys' = {}
  BY <1>1 DEF DispatchError, DispatchAck, IInv, NoSlotOutlivesItsRequest
<1>7. \/ UNCHANGED req
      \/ /\ pendErr \in Requesters /\ m.kind # "ack"
         /\ req' = [req EXCEPT ![pendErr] = [req[pendErr] EXCEPT !.err = m.kind]]
      \/ /\ pendAck \in Requesters /\ m.kind = "ack"
         /\ req' = [req EXCEPT ![pendAck] = [req[pendAck] EXCEPT !.ack = socket]]
  <2>1. pendErr \in Requesters \cup {Nobody} /\ pendAck \in Requesters \cup {Nobody}
    BY DEF IInv, TypeOK
  <2>2. CASE DispatchError(m)
    BY <2>1, <2>2 DEF DispatchError
  <2>3. CASE DispatchAck(m)
    BY <2>1, <2>3 DEF DispatchAck
  <2> QED
    BY <1>1, <2>2, <2>3
<1>8. ASSUME NEW r \in Requesters, NEW q, req' = [req EXCEPT ![r] = q], LocalsOK(q, socket),
             req[r].pc \in Waiting, q.pc = req[r].pc, q.sock = req[r].sock
      PROVE  IInv'
  <2>1. q.pc # "idle" /\ (r = RunTask => run = "startup")
    BY <1>8, BusyRun DEF Busy, Waiting
  <2>2. \A k \in answers' : k.kind = "ack" =>
          pendAck' = Nobody \/ (IF pendAck' = r THEN q ELSE req[pendAck']).sock = socket'
    BY <1>2, <1>5, <1>8
  <2> QED
    BY <1>2, <1>3, <1>4, <1>6, <1>8, <2>1, <2>2, StepKeeps
<1>9. CASE UNCHANGED req
  BY <1>1, <1>2, <1>3, <1>6, <1>9, FrameKeeps
<1>10. CASE /\ pendErr \in Requesters /\ m.kind # "ack"
            /\ req' = [req EXCEPT ![pendErr] = [req[pendErr] EXCEPT !.err = m.kind]]
  <2> DEFINE q == [req[pendErr] EXCEPT !.err = m.kind]
  <2>1. LocalsOK(q, socket) /\ q.pc = req[pendErr].pc /\ q.sock = req[pendErr].sock
    BY <1>4, <1>10, LocalsOfIInv DEF LocalsOK, Fields
  <2>2. req[pendErr].pc \in Waiting
    BY <1>10, RequestersAssumption DEF IInv, NoSlotOutlivesItsRequest, Requesters
  <2> QED
    BY <1>8, <1>10, <2>1, <2>2
<1>11. CASE /\ pendAck \in Requesters /\ m.kind = "ack"
            /\ req' = [req EXCEPT ![pendAck] = [req[pendAck] EXCEPT !.ack = socket]]
  <2> DEFINE q == [req[pendAck] EXCEPT !.ack = socket]
  <2>1. req[pendAck].pc \in Waiting /\ req[pendAck].sock = socket
    BY <1>1, <1>11, RequestersAssumption DEF IInv, NoSlotOutlivesItsRequest, SlotOfThisSocket, Requesters
  <2>2. LocalsOK(q, socket) /\ q.pc = req[pendAck].pc /\ q.sock = req[pendAck].sock
    BY <1>11, <2>1, LocalsOfIInv DEF LocalsOK, Fields, Waiting
  <2> QED
    BY <1>8, <1>11, <2>1, <2>2
<1> QED
  BY <1>7, <1>9, <1>10, <1>11

LEMMA RunKeeps ==
    ASSUME IInv, RunStep
    PROVE  IInv'
<1>1. CASE Connect
  <2>1. run = "backoff" /\ run' = "opening" /\ socket < MaxSockets /\ socket' = socket + 1
        /\ open' \in BOOLEAN /\ answers' = {} /\ UNCHANGED <<ready, stop, calls, req, pendErr, pendAck, ackKeys>>
    BY <1>1 DEF Connect, slotVars
  <2>2. RunKept
    BY <2>1, BoundsAssumption DEF IInv, TypeOK, RunKept, RunStates
  <2> QED
    BY <2>1, <2>2, FrameKeeps
<1>2. CASE ReaderEnded \/ Disconnected
  <2>1. run' # "startup" /\ run # "startup" /\ run' \in RunStates
        /\ UNCHANGED <<socket, open, ready, stop, calls, req, pendErr, pendAck, ackKeys, answers>>
    BY <1>2 DEF ReaderEnded, Disconnected, slotVars, wireVars, RunStates
  <2>2. RunKept
    BY <2>1, BoundsAssumption DEF IInv, TypeOK, RunKept
  <2> QED
    BY <2>1, <2>2, FrameKeeps
<1>3. CASE StartupBegins
  <2>1. run = "opening" /\ UNCHANGED <<socket, open, stop, calls, pendErr, pendAck, ackKeys, answers>>
        /\ ready' \in BOOLEAN
    BY <1>3 DEF StartupBegins, slotVars, wireVars
  <2>2. CASE run' = "serving" /\ UNCHANGED req
    <3>1. RunKept
      BY <2>1, <2>2, BoundsAssumption DEF IInv, TypeOK, RunKept, RunStates
    <3> QED
      BY <2>1, <2>2, <3>1, FrameKeeps
  <2>3. CASE run' = "startup" /\ req' = [req EXCEPT ![RunTask] = NewRequest("subscribe", listed, listed)]
    <3> DEFINE q == NewRequest("subscribe", listed, listed)
    <3>1. RunKept
      BY <2>1, <2>3, BoundsAssumption DEF IInv, TypeOK, RunKept, RunStates
    <3>2. LocalsOK(q, socket') /\ q.pc = "sending"
      BY <3>1 DEF NewRequest, Idle, LocalsOK, Fields, RunKept
    <3>3. pendErr' # RunTask /\ pendAck' # RunTask /\ (pendAck' = Nobody => ackKeys' = {})
      BY <2>1, RequestersAssumption DEF IInv, TypeOK, NoSlotOutlivesItsRequest, Busy, Waiting
    <3>4. /\ AnswersTyped'
          /\ \A m \in answers' : m.kind = "ack" =>
               pendAck' = Nobody \/ (IF pendAck' = RunTask THEN q ELSE req[pendAck']).sock = socket'
      BY <2>1, <3>3, RunTaskIsNoCaller, SlotsLeft
    <3>5. req' = [req EXCEPT ![RunTask] = q]
      BY <2>3
    <3> HIDE DEF q
    <3> QED
      BY <2>1, <2>3, <3>1, <3>2, <3>3, <3>4, <3>5, RunTaskIsNoCaller, StepKeeps
  <2> QED
    BY <1>3, <2>2, <2>3 DEF StartupBegins
<1>4. CASE CancelRun
  <2>1. run' \in RunStates /\ run' # "startup" /\ open' \in BOOLEAN /\ ready' \in BOOLEAN
        /\ req' = [req EXCEPT ![RunTask] = Idle] /\ FreeSlots(RunTask)
        /\ UNCHANGED <<socket, stop, answers, calls>>
    BY <1>4 DEF CancelRun, wireVars, RunStates, IInv, TypeOK
  <2>2. RunKept
    BY <2>1, BoundsAssumption DEF IInv, TypeOK, RunKept
  <2>3. LocalsOK(Idle, socket') /\ Idle.pc = "idle" /\ Idle.pc \notin Waiting
    BY IdleFields, <2>2 DEF Idle, LocalsOK, Waiting, RunKept
  <2>4. /\ pendErr' \in {pendErr, Nobody} /\ pendErr' # RunTask
        /\ pendAck' \in {pendAck, Nobody} /\ pendAck' # RunTask
        /\ pendAck' = Nobody => ackKeys' = {}
    BY <2>1, RunTaskIsNoCaller, Freed
  <2>5. /\ AnswersTyped'
        /\ \A m \in answers' : m.kind = "ack" =>
             pendAck' = Nobody \/ (IF pendAck' = RunTask THEN Idle ELSE req[pendAck']).sock = socket'
    BY <2>1, <2>4, RunTaskIsNoCaller, SlotsLeft
  <2> QED
    BY <2>1, <2>2, <2>3, <2>4, <2>5, RunTaskIsNoCaller, StepKeeps
<1> QED
  BY <1>1, <1>2, <1>3, <1>4 DEF RunStep

LEMMA EnvironmentKeeps ==
    ASSUME IInv, SocketLost \/ Close \/ UNCHANGED vars
    PROVE  IInv'
<1>1. open' \in BOOLEAN /\ stop' \in BOOLEAN
      /\ UNCHANGED <<run, socket, ready, calls, req, pendErr, pendAck, ackKeys, answers>>
  BY DEF SocketLost, Close, vars, runVars, slotVars, wireVars, IInv, TypeOK
<1>2. RunKept
  BY <1>1, BoundsAssumption DEF IInv, TypeOK, RunKept, RunStates
<1> QED
  BY <1>1, <1>2, FrameKeeps

LEMMA NextKeeps == IInv /\ [Next]_vars => IInv'
BY CallKeeps, SendKeeps, SkipKeeps, WaitKeeps, DispatchKeeps, RunKeeps, EnvironmentKeeps
   DEF Next, SendStep, Sending

LEMMA Inductive == Spec => []IInv
BY InitHolds, NextKeeps, PTL DEF Spec

-----------------------------------------------------------------------------
\* Types, and that the run task waits for a startup exactly while it has one.
THEOREM TypeCorrect == Spec => []TypeOK
<1>1. IInv => TypeOK
  BY DEF IInv
<1> QED
  BY <1>1, Inductive, PTL

\* Whatever ends a request (an answer, an error, a timeout, a cancellation), its
\* futures are out of the shared slots when it is over (2567-2575).
THEOREM SlotsAreReleased == Spec => []NoSlotOutlivesItsRequest
<1>1. IInv => NoSlotOutlivesItsRequest
  BY DEF IInv
<1> QED
  BY <1>1, Inductive, PTL

\* With any number of callers, sockets and replies, a request is acknowledged
\* only on the socket it was sent on (2415-2432, 2454-2466).
THEOREM AcksAreOfTheirSocket == Spec => []AckOfItsOwnSocket
<1>1. IInv => AckOfItsOwnSocket
  BY DEF IInv
<1> QED
  BY <1>1, Inductive, PTL

-----------------------------------------------------------------------------
(* What is listed is what was asked for. It takes the whole life of a call *)
(* to say when list and server may differ.                                 *)

\* The startup request of this socket is still to be sent.
BeforeStartup == run = "opening" \/ (run = "startup" /\ req[RunTask].pc = "sending")

\* What was asked for on this socket, or will be by its startup request.
Asked == sent \cup (IF BeforeStartup THEN listed ELSE {})

Excused == failed \cup raced

Given(s) == DOMAIN s = {"topic", "type", "filters"} /\ s.topic \in DOMAIN Types

\* The locals of one request, on socket s, with (h) or without a websocket.
\* An unsubscribe that has sent nothing yet (first = 0) has skipped nothing
\* either, unless there was no websocket.
CallInv(q, s, h) ==
    /\ q.pc = "idle" <=> q.action = "none"
    /\ q.action \in {"none", "subscribe", "unsubscribe"}
    /\ q.action = "subscribe" => q.cur = q.args
    /\ q.action = "unsubscribe" => q.cur \cup q.todo \subseteq q.args
    /\ q.pc = "waiting" => q.action = "subscribe"
    /\ q.first \in 0..s
    /\ q.action = "unsubscribe" /\ q.first = 0 =>
         q.pc = "sending" /\ (q.args \ q.todo = q.cur \/ ~h)

CallsInv == \A r \in Requesters : CallInv(req[r], socket, HasWebsocket)

\* The run task asks for the whole list, on the latest socket.
StartupInv ==
    /\ req[RunTask].action # "unsubscribe"
    /\ req[RunTask].pc = "sending" => req[RunTask].cur = listed
    /\ Busy(RunTask) /\ req[RunTask].pc # "sending" => req[RunTask].sock = socket

\* One frame at a time is written, and one call at a time is under way.
OneAtATime ==
    /\ \A r1, r2 \in Requesters : req[r1].pc = "sending" /\ req[r2].pc = "sending" => r1 = r2
    /\ \A c, d \in Callers : Busy(c) /\ Busy(d) => c = d

ConcreteInv ==
    /\ \A s \in listed : s.type # "*"
    /\ \A c \in Callers : req[c].action = "subscribe" => \A s \in req[c].args : Given(s)

SocketInv ==
    /\ open => run \in {"opening", "startup", "serving"}
    /\ HasWebsocket => socket > 0

ControlInv == CallsInv /\ StartupInv /\ OneAtATime /\ ConcreteInv /\ SocketInv

\* A call that is about to succeed was sent on this socket.
AnsweredInv ==
    \A c \in Callers :
        /\ req[c].pc = "grace" \/ (req[c].pc = "waiting" /\ req[c].ack # 0) => req[c].sock = socket
        /\ req[c].action = "subscribe" /\ req[c].pc \in {"waiting", "grace"} /\ req[c].sock = socket =>
             Entries(req[c].args) \subseteq sent

\* Listed but not asked for: a call is under way that removes it from the list.
MissingInv ==
    \A s \in listed \ Asked :
        s \in Excused
        \/ \E c \in Callers : req[c].action = "unsubscribe" /\ s \in Matching(listed, req[c].args)

\* Asked for but not listed: a call is under way that lists it.
SurplusInv ==
    \A s \in sent \ listed :
        s \in Excused
        \/ \E c \in Callers : req[c].action = "subscribe" /\ s \in Entries(req[c].args)

\* What an unsubscribe has cancelled on this socket, nobody asks for again.
CancelledInv ==
    \A c \in Callers : req[c].action = "unsubscribe" /\ req[c].first = socket =>
        \A u \in req[c].args \ req[c].todo :
            (u \in req[c].cur => req[c].pc = "grace") => Matching(Asked, {u}) \subseteq raced

DifferenceInv == open => MissingInv /\ SurplusInv /\ CancelledInv

ListInv == ControlInv /\ AnsweredInv /\ DifferenceInv

-----------------------------------------------------------------------------
(* Subscriptions.                                                          *)

LEMMA MatchingIs ==
    \A S, U : \A s : s \in Matching(S, U) <=> s \in S /\ \E u \in U : Matches(s, u)
BY DEF Matching

LEMMA EntriesOfConcrete ==
    ASSUME NEW S, \A s \in S : s.type # "*" PROVE Entries(S) = S
<1>1. \A s \in S : Expand(s) = {s}
  BY DEF Expand
<1> QED
  BY <1>1 DEF Entries

LEMMA EntriesAreConcrete ==
    ASSUME NEW S, \A s \in S : Given(s) PROVE \A e \in Entries(S) : e.type # "*"
<1> SUFFICES ASSUME NEW s \in S, NEW e \in Expand(s) PROVE e.type # "*"
  BY DEF Entries
<1>1. CASE s.type = "*"
  <2>1. PICK t \in Types[s.topic] : e = [s EXCEPT !.type = t]
    BY <1>1 DEF Expand
  <2>2. "type" \in DOMAIN s /\ s.topic \in DOMAIN Types
    BY DEF Given
  <2>3. t # "*"
    BY <2>2, SubscriptionsAssumption
  <2> QED
    BY <2>1, <2>2, <2>3
<1>2. CASE s.type # "*"
  BY <1>2 DEF Expand
<1> QED
  BY <1>1, <1>2

LEMMA ArgumentsGiven == \A S \in InitialSubscriptions \cup SubscribeArguments : \A s \in S : Given(s)
BY SubscriptionsAssumption DEF Given

-----------------------------------------------------------------------------
(* Control.                                                                *)

LEMMA IdleIs ==
    /\ Idle.pc = "idle" /\ Idle.action = "none" /\ Idle.args = {} /\ Idle.todo = {} /\ Idle.cur = {}
    /\ Idle.sock = 0 /\ Idle.first = 0 /\ Idle.ack = 0 /\ Idle.err = "none"
BY DEF Idle

LEMMA IdleCall == ASSUME NEW s \in Nat, NEW h PROVE CallInv(Idle, s, h)
BY DEF CallInv, Idle

LEMMA SocketIsNat == IInv => socket \in Nat
BY BoundsAssumption DEF IInv, TypeOK

\* Init.
LEMMA ListInit == Init => ListInv
<1> SUFFICES ASSUME Init PROVE ListInv
  OBVIOUS
<1>1. \A r \in Requesters : req[r] = Idle
  BY DEF Init
<1>2. CallsInv
  BY <1>1, IdleCall DEF CallsInv, Init
<1>3. StartupInv /\ OneAtATime
  BY <1>1, IdleIs, RunTaskIsNoCaller DEF StartupInv, OneAtATime, Busy
<1>4. ConcreteInv
  BY <1>1, IdleIs, RunTaskIsNoCaller, EntriesAreConcrete, ArgumentsGiven DEF ConcreteInv, Init
<1>5. SocketInv /\ DifferenceInv
  BY DEF SocketInv, Init, HasWebsocket, DifferenceInv
<1>6. AnsweredInv
  BY <1>1, IdleIs, RunTaskIsNoCaller DEF AnsweredInv
<1> QED
  BY <1>2, <1>3, <1>4, <1>5, <1>6 DEF ListInv, ControlInv

\* A step that changes the locals of one requester.
LEMMA ControlKeeps ==
    ASSUME IInv, ControlInv, UNCHANGED socket, HasWebsocket' = HasWebsocket,
           NEW r \in Requesters, NEW q, req' = [req EXCEPT ![r] = q],
           CallInv(q, socket, HasWebsocket),
           r = RunTask => /\ q.action # "unsubscribe" /\ UNCHANGED listed
                          /\ q.pc = "sending" => q.cur = listed
                          /\ q.pc \notin {"idle", "sending"} => q.sock = socket,
           r # RunTask => UNCHANGED listed \/ req[RunTask].pc # "sending",
           q.pc = "sending" => \A d \in Requesters \ {r} : req[d].pc # "sending",
           r # RunTask /\ q.pc # "idle" => \A d \in Callers \ {r} : req[d].pc = "idle",
           r # RunTask /\ q.action = "subscribe" => \A s \in q.args : Given(s),
           open' => run' \in {"opening", "startup", "serving"},
           \A s \in listed' : s.type # "*"
    PROVE  ControlInv'
<1>1. req'[r] = q /\ \A d \in Requesters \ {r} : req'[d] = req[d]
  BY DEF IInv, Shape
<1>2. CallsInv'
  BY <1>1 DEF CallsInv, ControlInv
<1>3. StartupInv'
  <2>1. CASE r = RunTask
    BY <2>1, <1>1 DEF StartupInv, Busy
  <2>2. CASE r # RunTask
    BY <2>2, <1>1, RunTaskIsNoCaller DEF StartupInv, Busy, ControlInv
  <2> QED
    BY <2>1, <2>2
<1>4. OneAtATime'
  BY <1>1, RunTaskIsNoCaller DEF OneAtATime, ControlInv, Busy
<1>5. ConcreteInv'
  BY <1>1, RunTaskIsNoCaller DEF ConcreteInv, ControlInv
<1>6. SocketInv'
  BY DEF SocketInv, ControlInv
<1> QED
  BY <1>2, <1>3, <1>4, <1>5, <1>6 DEF ControlInv

\* A step of the connection alone, when nobody is sending.
LEMMA ControlFrame ==
    ASSUME IInv, ControlInv, Sending = {} \/ HasWebsocket' = HasWebsocket,
           UNCHANGED <<req, listed>>,
           UNCHANGED socket \/ (~Busy(RunTask) /\ socket' = socket + 1),
           open' => run' \in {"opening", "startup", "serving"},
           HasWebsocket' => socket' > 0
    PROVE  ControlInv'
<1>1. \A r \in Requesters : CallInv(req[r], socket', HasWebsocket')
  BY SocketIsNat DEF CallsInv, CallInv, ControlInv, Sending
<1>2. CallsInv'
  BY <1>1 DEF CallsInv
<1>3. StartupInv'
  BY DEF StartupInv, ControlInv, Busy
<1>4. OneAtATime' /\ ConcreteInv'
  BY DEF OneAtATime, ConcreteInv, ControlInv, Busy
<1>5. SocketInv'
  BY DEF SocketInv
<1> QED
  BY <1>2, <1>3, <1>4, <1>5 DEF ControlInv

\* A step that asks for nothing and cancels nothing.
LEMMA QuietKeeps ==
    ASSUME DifferenceInv, open' => open, UNCHANGED <<listed, sent, socket>>,
           BeforeStartup' = BeforeStartup \/ listed = {},
           raced \subseteq raced', failed \subseteq failed',
           \A c \in Callers :
              /\ req'[c].action = req[c].action /\ req'[c].args = req[c].args
              /\ req'[c].todo = req[c].todo /\ req'[c].cur = req[c].cur
              /\ req'[c].first = req[c].first
              /\ req'[c].pc = "grace" => req[c].pc = "grace"
    PROVE  DifferenceInv'
<1> SUFFICES ASSUME open' PROVE MissingInv' /\ SurplusInv' /\ CancelledInv'
  BY DEF DifferenceInv
<1>1. MissingInv /\ SurplusInv /\ CancelledInv
  BY DEF DifferenceInv
<1>2. Asked' = Asked
  BY DEF Asked
<1>3. Excused \subseteq Excused'
  BY DEF Excused
<1>4. MissingInv'
  BY <1>1, <1>2, <1>3 DEF MissingInv
<1>5. SurplusInv'
  BY <1>1, <1>3 DEF SurplusInv
<1>6. CancelledInv'
  BY <1>1, <1>2 DEF CancelledInv
<1> QED
  BY <1>4, <1>5, <1>6

\* The locals of callers that answers and their arguments depend on.
LEMMA AnsweredFrame ==
    ASSUME AnsweredInv, UNCHANGED socket, sent \subseteq sent',
           \A c \in Callers : req'[c] = req[c] \/ req'[c].pc \notin {"waiting", "grace"}
    PROVE  AnsweredInv'
BY DEF AnsweredInv

-----------------------------------------------------------------------------
(* The steps of a requester.                                               *)

\* What the steps of a caller leave alone.
LEMMA RunTaskLeftAlone ==
    ASSUME IInv, NEW c \in Callers, NEW q, req' = [req EXCEPT ![c] = q], UNCHANGED <<run, listed>>
    PROVE  BeforeStartup' = BeforeStartup /\ (UNCHANGED sent => Asked' = Asked)
<1>1. req'[RunTask] = req[RunTask]
  BY RunTaskIsNoCaller DEF IInv, Shape
<1> QED
  BY <1>1 DEF BeforeStartup, Asked

LEMMA CallerAlone ==
    ASSUME OneAtATime, NEW c \in Callers, Busy(c)
    PROVE  \A d \in Callers \ {c} : req[d].pc = "idle"
BY DEF OneAtATime, Busy

LEMMA SubscribeListed ==
    ASSUME IInv, IInv', ListInv, Sending = {}, NEW c \in Callers, Subscribe(c) \/ Unsubscribe(c)
    PROVE  ListInv'
<1>1. PICK action, args, cur :
        /\ req' = [req EXCEPT ![c] = NewRequest(action, args, cur)]
        /\ \/ action = "subscribe" /\ cur = args /\ \A s \in args : Given(s)
           \/ action = "unsubscribe" /\ cur \subseteq args
  <2>1. CASE Subscribe(c)
    <3>1. PICK S \in SubscribeArguments :
            req' = [req EXCEPT ![c] = NewRequest("subscribe", {s \in S : ~(Expand(s) \subseteq listed)},
                                                 {s \in S : ~(Expand(s) \subseteq listed)})]
      BY <2>1 DEF Subscribe
    <3>2. \A s \in {s \in S : ~(Expand(s) \subseteq listed)} : Given(s)
      BY ArgumentsGiven
    <3> QED
      BY <3>1, <3>2
  <2>2. CASE Unsubscribe(c)
    <3>1. PICK U \in UnsubscribeArguments : \E u \in UnsubscribeRequests(listed, U) :
            req' = [req EXCEPT ![c] = NewRequest("unsubscribe", UnsubscribeRequests(listed, U), {u})]
      BY <2>2 DEF Unsubscribe
    <3>2. PICK u \in UnsubscribeRequests(listed, U) :
            req' = [req EXCEPT ![c] = NewRequest("unsubscribe", UnsubscribeRequests(listed, U), {u})]
      BY <3>1
    <3>3. {u} \subseteq UnsubscribeRequests(listed, U)
      OBVIOUS
    <3> QED
      BY <3>2, <3>3
  <2> QED
    BY <2>1, <2>2
<1> DEFINE q == NewRequest(action, args, cur)
<1>2. /\ q.pc = "sending" /\ q.action = action /\ q.args = args /\ q.cur = cur /\ q.first = 0
      /\ q.todo = IF action = "unsubscribe" THEN args \ cur ELSE {}
  BY DEF NewRequest, Idle
<1>3. LockFree /\ UNCHANGED <<run, socket, open, ready, stop, answers, sent, raced, listed, failed>>
  BY DEF Subscribe, Unsubscribe, runVars, wireVars
<1>4. HasWebsocket' = HasWebsocket
  BY <1>3 DEF HasWebsocket
<1>5. req' = [req EXCEPT ![c] = q]
  BY <1>1
<1> HIDE DEF q
<1>6. CallInv(q, socket, HasWebsocket)
  BY <1>1, <1>2, SocketIsNat DEF CallInv
<1>7. c \in Requesters /\ c # RunTask
  BY RunTaskIsNoCaller
<1>8. ControlInv'
  <2>1. \A d \in Requesters : req[d].pc # "sending"
    BY DEF Sending
  <2>2. \A d \in Callers : req[d].pc = "idle"
    BY <1>3 DEF LockFree, Busy
  <2>3. open' => run' \in {"opening", "startup", "serving"}
    BY <1>3 DEF ListInv, ControlInv, SocketInv
  <2>4. \A s \in listed' : s.type # "*"
    BY <1>3 DEF ListInv, ControlInv, ConcreteInv
  <2> QED
    BY <1>1, <1>2, <1>3, <1>4, <1>5, <1>6, <1>7, <2>1, <2>2, <2>3, <2>4, ControlKeeps DEF ListInv
<1>9. req'[c] = q /\ \A d \in Requesters \ {c} : req'[d] = req[d]
  BY <1>5, <1>7 DEF IInv, Shape
<1>10. \A d \in Callers : d \in Requesters /\ req[d].action = "none"
  BY <1>3, RunTaskIsNoCaller DEF LockFree, Busy, ListInv, ControlInv, CallsInv, CallInv
<1>11. AnsweredInv'
  BY <1>2, <1>3, <1>9, <1>10, AnsweredFrame DEF ListInv
<1>12. ASSUME open' PROVE MissingInv' /\ SurplusInv' /\ CancelledInv'
  <2>1. MissingInv /\ SurplusInv /\ Asked' = Asked /\ Excused' = Excused
    BY <1>3, <1>5, <1>12, RunTaskLeftAlone DEF ListInv, DifferenceInv, Excused
  <2>2. MissingInv' /\ SurplusInv'
    BY <2>1, <1>3, <1>10 DEF MissingInv, SurplusInv
  <2>3. \A d \in Callers : req'[d].action = "unsubscribe" => d = c /\ action = "unsubscribe"
    BY <1>2, <1>9, <1>10
  <2>4. action = "unsubscribe" => q.args \ q.todo \subseteq q.cur /\ q.pc # "grace"
    BY <1>1, <1>2
  <2>5. CancelledInv'
    BY <2>3, <2>4, <1>9, <1>7 DEF CancelledInv
  <2> QED
    BY <2>2, <2>5
<1> QED
  BY <1>8, <1>11, <1>12 DEF ListInv, DifferenceInv

\* The request has raised: what it may have left behind is excused.
LEMMA RaisesListed ==
    ASSUME IInv, IInv', ListInv, NEW r \in Requesters, Busy(r), RequestRaises(r)
    PROVE  ListInv'
<1>1. /\ req' = [req EXCEPT ![r] = Idle] /\ UNCHANGED <<answers, sent, raced, listed, socket>>
      /\ IF r = RunTask THEN run' = "leaving" /\ ~open'
         ELSE UNCHANGED <<run, open>>
              /\ failed' = failed \cup Entries(req[r].args) \cup Matching(listed, req[r].args)
  BY DEF RequestRaises, wireVars, runVars
<1>2. req'[r] = Idle /\ \A d \in Requesters \ {r} : req'[d] = req[d]
  BY <1>1 DEF IInv, Shape
<1>3. HasWebsocket' = HasWebsocket
  BY <1>1, BusyRun DEF HasWebsocket
<1>4. ControlInv'
  <2>1. CallInv(Idle, socket, HasWebsocket)
    BY IdleCall, SocketIsNat
  <2>2. open' => run' \in {"opening", "startup", "serving"}
    BY <1>1 DEF ListInv, ControlInv, SocketInv
  <2>3. \A s \in listed' : s.type # "*"
    BY <1>1 DEF ListInv, ControlInv, ConcreteInv
  <2> QED
    BY <1>1, <1>3, <2>1, <2>2, <2>3, IdleIs, ControlKeeps DEF ListInv
<1>5. AnsweredInv'
  BY <1>1, <1>2, IdleIs, RunTaskIsNoCaller, AnsweredFrame DEF ListInv
<1>6. CASE r = RunTask
  BY <1>1, <1>4, <1>5, <1>6 DEF ListInv, DifferenceInv
<1>7. ASSUME r # RunTask, open' PROVE MissingInv' /\ SurplusInv' /\ CancelledInv'
  <2>1. r \in Callers /\ Asked' = Asked /\ Excused \subseteq Excused'
    BY <1>1, <1>7, RunTaskLeftAlone DEF Excused, Requesters
  <2>2. MissingInv /\ SurplusInv /\ CancelledInv
    BY <1>1, <1>7 DEF ListInv, DifferenceInv
  <2>3. Entries(req[r].args) \cup Matching(listed, req[r].args) \subseteq Excused'
    BY <1>1, <1>7 DEF Excused
  <2>4. \A d \in Callers : d # r => req'[d] = req[d]
    BY <1>2, RunTaskIsNoCaller
  <2>5. MissingInv'
    BY <1>1, <2>1, <2>2, <2>3, <2>4 DEF MissingInv
  <2>6. SurplusInv'
    BY <1>1, <2>1, <2>2, <2>3, <2>4 DEF SurplusInv
  <2>7. CancelledInv'
    BY <1>1, <1>2, <2>1, <2>2, <2>4, IdleIs DEF CancelledInv
  <2> QED
    BY <2>5, <2>6, <2>7
<1> QED
  BY <1>4, <1>5, <1>6, <1>7 DEF ListInv, DifferenceInv

LEMMA AgainListed ==
    ASSUME IInv, IInv', ListInv, Sending = {}, NEW c \in Callers, Busy(c), NEW b, Again(c, b)
    PROVE  ListInv'
<1> DEFINE q == [req[c] EXCEPT !.pc = "sending", !.err = "none", !.ack = 0, !.recovered = b]
<1>1. req' = [req EXCEPT ![c] = q] /\ UNCHANGED <<run, open, socket, answers, sent, raced, listed, failed>>
  BY DEF Again, wireVars, runVars
<1>2. c \in Requesters /\ c # RunTask
  BY RunTaskIsNoCaller
<1>3. /\ q.pc = "sending" /\ q.action = req[c].action /\ q.args = req[c].args /\ q.todo = req[c].todo
      /\ q.cur = req[c].cur /\ q.first = req[c].first
  BY <1>2 DEF IInv, Shape, Fields
<1> HIDE DEF q
<1>4. req'[c] = q /\ \A d \in Requesters \ {c} : req'[d] = req[d]
  BY <1>1, <1>2 DEF IInv, Shape
<1>5. HasWebsocket' = HasWebsocket
  BY <1>1 DEF HasWebsocket
<1>6. CallInv(q, socket, HasWebsocket)
  <2>1. CallInv(req[c], socket, HasWebsocket) /\ req[c].pc # "sending" /\ req[c].pc # "idle"
    BY <1>2 DEF ListInv, ControlInv, CallsInv, Sending, Busy
  <2> QED
    BY <1>3, <2>1 DEF CallInv
<1>7. ControlInv'
  <2>1. \A d \in Requesters : req[d].pc # "sending"
    BY DEF Sending
  <2>2. \A d \in Callers \ {c} : req[d].pc = "idle"
    BY CallerAlone DEF ListInv, ControlInv
  <2>3. open' => run' \in {"opening", "startup", "serving"}
    BY <1>1 DEF ListInv, ControlInv, SocketInv
  <2>4. (\A s \in listed' : s.type # "*") /\ (q.action = "subscribe" => \A s \in q.args : Given(s))
    BY <1>1, <1>3 DEF ListInv, ControlInv, ConcreteInv
  <2> QED
    BY <1>1, <1>2, <1>5, <1>6, <2>1, <2>2, <2>3, <2>4, ControlKeeps DEF ListInv
<1>8. AnsweredInv'
  BY <1>1, <1>3, <1>4, RunTaskIsNoCaller, AnsweredFrame DEF ListInv
<1>9. DifferenceInv'
  <2>1. BeforeStartup' = BeforeStartup
    BY <1>1, RunTaskLeftAlone
  <2>2. \A d \in Callers :
          /\ req'[d].action = req[d].action /\ req'[d].args = req[d].args
          /\ req'[d].todo = req[d].todo /\ req'[d].cur = req[d].cur
          /\ req'[d].first = req[d].first
          /\ req'[d].pc = "grace" => req[d].pc = "grace"
    BY <1>3, <1>4, RunTaskIsNoCaller
  <2> QED
    BY <1>1, <2>1, <2>2, QuietKeeps DEF ListInv
<1> QED
  BY <1>7, <1>8, <1>9 DEF ListInv

\* The startup request asks again for all that is listed.
LEMMA SendStartupListed ==
    ASSUME IInv, IInv', ListInv, Send(RunTask)
    PROVE  ListInv'
<1> DEFINE keys == IF req[RunTask].action = "subscribe" THEN AckKeys(req[RunTask].cur) ELSE {}
           first == IF req[RunTask].first = 0 THEN socket ELSE req[RunTask].first
           pc == IF ~open THEN "reconnecting" ELSE IF keys # {} THEN "waiting" ELSE "grace"
           q == [req[RunTask] EXCEPT !.pc = pc, !.sock = socket, !.first = first]
<1>1. req[RunTask].pc = "sending" /\ req' = [req EXCEPT ![RunTask] = q]
      /\ UNCHANGED <<run, socket, open, listed, failed>> /\ HasWebsocket
  BY DEF Send, runVars
<1>2. req[RunTask].action = "subscribe" /\ req[RunTask].cur = listed /\ run = "startup"
  BY <1>1, RunTaskIsNoCaller, BusyRun DEF ListInv, ControlInv, StartupInv, CallsInv, CallInv, Busy
<1>3. Entries(listed) = listed
  BY EntriesOfConcrete DEF ListInv, ControlInv, ConcreteInv
<1>4. open => sent' = sent \cup listed /\ raced' = raced
  BY <1>1, <1>2, <1>3 DEF Send
<1>5. ~open => UNCHANGED <<sent, raced>>
  BY DEF Send, wireVars
<1>6. /\ q.pc = pc /\ q.action = "subscribe" /\ q.sock = socket /\ q.cur = q.args
      /\ q.first \in 0..socket
      /\ pc \in {"waiting", "grace", "reconnecting"}
  <2>1. req[RunTask].cur = req[RunTask].args /\ req[RunTask].first \in 0..socket
    BY <1>2, RunTaskIsNoCaller DEF ListInv, ControlInv, CallsInv, CallInv
  <2> QED
    <3>1. /\ q.pc = pc /\ q.action = req[RunTask].action /\ q.sock = socket
          /\ q.cur = req[RunTask].cur /\ q.args = req[RunTask].args /\ q.first = first
      BY RunTaskIsNoCaller DEF IInv, Shape, Fields
    <3>2. first \in 0..socket /\ pc \in {"waiting", "grace", "reconnecting"}
      BY <2>1, SocketIsNat
    <3> QED
      BY <2>1, <3>1, <3>2, <1>2
<1> HIDE DEF q
<1>7. req'[RunTask] = q /\ \A d \in Requesters \ {RunTask} : req'[d] = req[d]
  BY <1>1, RunTaskIsNoCaller DEF IInv, Shape
<1>8. ControlInv'
  <2>1. CallInv(q, socket, HasWebsocket)
    BY <1>6 DEF CallInv
  <2>2. open' => run' \in {"opening", "startup", "serving"}
    BY <1>1 DEF ListInv, ControlInv, SocketInv
  <2>3. \A s \in listed' : s.type # "*"
    BY <1>1 DEF ListInv, ControlInv, ConcreteInv
  <2>4. HasWebsocket' = HasWebsocket
    BY <1>1 DEF HasWebsocket
  <2> QED
    BY <1>1, <1>6, <2>1, <2>2, <2>3, <2>4, RunTaskIsNoCaller, ControlKeeps DEF ListInv
<1>9. AnsweredInv'
  <2>1. sent \subseteq sent'
    BY <1>4, <1>5 DEF IInv, TypeOK
  <2> QED
    BY <1>1, <1>7, <2>1, RunTaskIsNoCaller, AnsweredFrame DEF ListInv
<1>10. ASSUME open' PROVE MissingInv' /\ SurplusInv' /\ CancelledInv'
  <2>1. BeforeStartup /\ ~BeforeStartup'
    BY <1>1, <1>2, <1>6, <1>7 DEF BeforeStartup
  <2>2. Asked' = Asked /\ sent' \ listed' = sent \ listed
    BY <1>1, <1>4, <1>10, <2>1 DEF Asked
  <2>3. Excused' = Excused
    BY <1>1, <1>4, <1>10 DEF Excused
  <2>4. \A d \in Callers : req'[d] = req[d]
    BY <1>7, RunTaskIsNoCaller
  <2>5. MissingInv /\ SurplusInv /\ CancelledInv
    BY <1>1, <1>10 DEF ListInv, DifferenceInv
  <2> QED
    BY <1>1, <1>4, <1>10, <2>2, <2>3, <2>4, <2>5 DEF MissingInv, SurplusInv, CancelledInv
<1> QED
  BY <1>8, <1>9, <1>10 DEF ListInv, DifferenceInv

\* The frame of a call. What unsubscribe cancels is asked for no more, except by
\* a startup request that is still to come.
LEMMA SendCallListed ==
    ASSUME IInv, IInv', ListInv, NEW c \in Callers, Send(c)
    PROVE  ListInv'
<1> DEFINE keys == IF req[c].action = "subscribe" THEN AckKeys(req[c].cur) ELSE {}
           first == IF req[c].first = 0 THEN socket ELSE req[c].first
           pc == IF ~open THEN "reconnecting" ELSE IF keys # {} THEN "waiting" ELSE "grace"
           q == [req[c] EXCEPT !.pc = pc, !.sock = socket, !.first = first]
<1>1. req[c].pc = "sending" /\ req' = [req EXCEPT ![c] = q]
      /\ UNCHANGED <<run, socket, open, listed, failed>> /\ HasWebsocket
  BY DEF Send, runVars
<1>2. c \in Requesters /\ c # RunTask /\ Busy(c)
  BY <1>1, RunTaskIsNoCaller DEF Busy
<1>3. CallInv(req[c], socket, HasWebsocket) /\ socket > 0
  BY <1>1, <1>2 DEF ListInv, ControlInv, CallsInv, SocketInv
<1>4. /\ q.pc = pc /\ q.action = req[c].action /\ q.sock = socket /\ q.cur = req[c].cur
      /\ q.args = req[c].args /\ q.todo = req[c].todo /\ q.first = first
      /\ pc \in {"waiting", "grace", "reconnecting"}
      /\ pc = "waiting" => req[c].action = "subscribe"
      /\ first \in 0..socket /\ first # 0
  <2>1. req[c].first \in 0..socket
    BY <1>3 DEF CallInv
  <2> QED
    BY <2>1, <1>2, <1>3, SocketIsNat DEF IInv, Shape, Fields
<1>5. open /\ req[c].action = "unsubscribe" => pc = "grace"
  OBVIOUS
<1>6. open => /\ sent' = (IF req[c].action = "subscribe" THEN sent \cup Entries(req[c].cur)
                          ELSE sent \ Matching(sent, req[c].cur))
              /\ raced' = IF req[c].action = "unsubscribe" /\ run = "opening"
                          THEN raced \cup Matching(listed, req[c].cur) ELSE raced
  BY DEF Send
<1>7. ~open => UNCHANGED <<sent, raced>> /\ pc = "reconnecting"
  BY DEF Send, wireVars
<1> HIDE DEF q, pc
<1>8. req'[c] = q /\ \A d \in Requesters \ {c} : req'[d] = req[d]
  BY <1>1, <1>2 DEF IInv, Shape
<1>9. \A d \in Callers \ {c} : d \in Requesters /\ req[d].pc = "idle" /\ req[d].action = "none" /\ req'[d] = req[d]
  BY <1>2, <1>8, CallerAlone, RunTaskIsNoCaller DEF ListInv, ControlInv, CallsInv, CallInv
<1>10. req[RunTask].pc # "sending"
  BY <1>1, <1>2, RunTaskIsNoCaller DEF ListInv, ControlInv, OneAtATime
<1>11. ControlInv'
  <2>1. CallInv(q, socket, HasWebsocket)
    BY <1>1, <1>3, <1>4 DEF CallInv
  <2>2. open' => run' \in {"opening", "startup", "serving"}
    BY <1>1 DEF ListInv, ControlInv, SocketInv
  <2>3. (\A s \in listed' : s.type # "*") /\ (q.action = "subscribe" => \A s \in q.args : Given(s))
    BY <1>1, <1>4 DEF ListInv, ControlInv, ConcreteInv
  <2>4. HasWebsocket' = HasWebsocket
    BY <1>1 DEF HasWebsocket
  <2> QED
    BY <1>1, <1>2, <1>4, <1>9, <2>1, <2>2, <2>3, <2>4, ControlKeeps DEF ListInv
<1>12. AnsweredInv'
  <2>1. open /\ req[c].action = "subscribe" => Entries(req[c].args) \subseteq sent'
    BY <1>3, <1>6 DEF CallInv
  <2>2. SUFFICES ASSUME NEW d \in Callers
                 PROVE  /\ req'[d].pc = "grace" \/ (req'[d].pc = "waiting" /\ req'[d].ack # 0) => req'[d].sock = socket'
                        /\ req'[d].action = "subscribe" /\ req'[d].pc \in {"waiting", "grace"} /\ req'[d].sock = socket' =>
                             Entries(req'[d].args) \subseteq sent'
    BY DEF AnsweredInv
  <2>3. CASE d = c
    BY <2>1, <2>3, <1>1, <1>4, <1>7, <1>8
  <2>4. CASE d # c
    BY <2>4, <1>9
  <2> QED
    BY <2>3, <2>4
<1>13. ASSUME open' PROVE MissingInv' /\ SurplusInv' /\ CancelledInv'
  <2>1. BeforeStartup' = BeforeStartup /\ (BeforeStartup => run = "opening")
    BY <1>1, <1>10, RunTaskLeftAlone DEF BeforeStartup
  <2>2. MissingInv /\ SurplusInv /\ CancelledInv /\ open
    BY <1>1, <1>13 DEF ListInv, DifferenceInv
  <2>3. Excused \subseteq Excused' /\ raced \subseteq raced'
    BY <1>1, <1>6, <2>2 DEF Excused
  <2>4. CASE req[c].action = "subscribe"
    <3>1. sent' = sent \cup Entries(req[c].args) /\ Asked \subseteq Asked'
      BY <2>1, <2>2, <2>4, <1>1, <1>3, <1>6 DEF Asked, CallInv
    <3>2. \A d \in Callers : req'[d].action # "unsubscribe" /\ req[d].action # "unsubscribe"
      BY <1>4, <1>8, <1>9, <2>4
    <3>3. MissingInv'
      BY <3>1, <3>2, <2>2, <2>3, <1>1 DEF MissingInv
    <3>4. SurplusInv'
      <4> SUFFICES ASSUME NEW s \in sent' \ listed'
                   PROVE  s \in Excused' \/ \E d \in Callers : req'[d].action = "subscribe" /\ s \in Entries(req'[d].args)
        BY DEF SurplusInv
      <4>1. CASE s \in Entries(req[c].args)
        BY <4>1, <1>4, <1>8, <2>4
      <4>2. CASE s \in sent \ listed
        BY <4>2, <1>4, <1>8, <1>9, <2>2, <2>3 DEF SurplusInv
      <4> QED
        BY <3>1, <4>1, <4>2, <1>1
    <3>5. CancelledInv'
      BY <3>2 DEF CancelledInv
    <3> QED
      BY <3>3, <3>4, <3>5
  <2>5. CASE req[c].action = "unsubscribe"
    <3>1. sent' = sent \ Matching(sent, req[c].cur)
          /\ (BeforeStartup => Matching(listed, req[c].cur) \subseteq raced')
      BY <2>1, <2>2, <2>5, <1>6
    <3>2. Asked' = sent' \cup (IF BeforeStartup THEN listed ELSE {}) /\ Asked' \subseteq Asked
      BY <1>1, <2>1, <3>1 DEF Asked
    <3>3. req[c].cur \subseteq req[c].args
      BY <1>3, <2>5 DEF CallInv
    <3>4. MissingInv'
      <4> SUFFICES ASSUME NEW s \in listed', s \notin Asked'
                   PROVE  s \in Excused' \/ \E d \in Callers : req'[d].action = "unsubscribe" /\ s \in Matching(listed', req'[d].args)
        BY DEF MissingInv
      <4>1. CASE s \in Asked
        <5>1. s \in Matching(sent, req[c].cur)
          BY <4>1, <3>1, <3>2, <1>1 DEF Asked
        <5>2. s \in Matching(listed', req[c].args)
          BY <5>1, <3>3, <1>1, MatchingIs
        <5> QED
          BY <5>2, <1>4, <1>8, <2>5
      <4>2. CASE s \notin Asked
        BY <4>2, <1>1, <1>4, <1>8, <1>9, <2>2, <2>3 DEF MissingInv
      <4> QED
        BY <4>1, <4>2
    <3>5. SurplusInv'
      BY <3>1, <1>1, <1>9, <2>2, <2>3, <2>5 DEF SurplusInv
    <3>6. CancelledInv'
      <4> SUFFICES ASSUME req'[c].first = socket, NEW u \in req[c].args \ req[c].todo, NEW s \in Matching(Asked', {u})
                   PROVE  s \in raced'
        BY <1>1, <1>4, <1>8, <1>9 DEF CancelledInv
      <4>1. s \in Asked' /\ Matches(s, u)
        BY MatchingIs
      <4>2. CASE u \in req[c].cur
        <5>1. s \notin sent'
          BY <4>1, <4>2, <3>1, MatchingIs
        <5>2. BeforeStartup /\ s \in Matching(listed, req[c].cur)
          BY <4>1, <4>2, <5>1, <3>2, MatchingIs
        <5> QED
          BY <5>2, <3>1
      <4>3. CASE u \notin req[c].cur
        <5>1. req[c].first # 0
          BY <4>3, <1>1, <1>3, <2>5 DEF CallInv
        <5>2. req[c].first = socket
          BY <5>1, <1>4, <1>8
        <5>3. Matching(Asked, {u}) \subseteq raced
          BY <5>2, <4>3, <2>2, <2>5 DEF CancelledInv
        <5>4. s \in Matching(Asked, {u})
          BY <4>1, <3>2, MatchingIs
        <5> QED
          BY <5>3, <5>4, <2>3
      <4> QED
        BY <4>2, <4>3
    <3> QED
      BY <3>4, <3>5, <3>6
  <2> QED
    BY <2>4, <2>5, <1>1, <1>3 DEF CallInv
<1> QED
  BY <1>11, <1>12, <1>13 DEF ListInv, DifferenceInv

\* A call returns, or goes on with its next frame: it was answered on this
\* socket, or there is none.
LEMMA ReturnsListed ==
    ASSUME IInv, IInv', ListInv, NEW c \in Callers, Busy(c), RequestReturns(c),
           UNCHANGED <<sent, failed>>,
           \A d \in Requesters \ {c} : req[d].pc # "sending",
           \/ ~HasWebsocket
           \/ req[c].pc = "grace" \/ (req[c].pc = "waiting" /\ req[c].ack # 0)
    PROVE  ListInv'
<1>1. c \in Requesters /\ c # RunTask /\ CallInv(req[c], socket, HasWebsocket)
  BY RunTaskIsNoCaller DEF ListInv, ControlInv, CallsInv
<1>2. UNCHANGED <<run, socket, open>> /\ HasWebsocket' = HasWebsocket
  BY <1>1 DEF RequestReturns, runVars, HasWebsocket
<1>3. open => HasWebsocket
  BY DEF ListInv, ControlInv, SocketInv, HasWebsocket
<1>4. \A d \in Callers \ {c} : d \in Requesters /\ req[d].pc = "idle" /\ req[d].action = "none"
  BY CallerAlone, RunTaskIsNoCaller DEF ListInv, ControlInv, CallsInv, CallInv
<1>5. req[RunTask].pc # "sending"
  BY <1>1, RunTaskIsNoCaller
<1>6. open => MissingInv /\ SurplusInv /\ CancelledInv
  BY DEF ListInv, DifferenceInv
<1>7. HasWebsocket => req[c].sock = socket
  BY DEF ListInv, AnsweredInv
<1>8. open' => run' \in {"opening", "startup", "serving"}
  BY <1>2 DEF ListInv, ControlInv, SocketInv
<1>9. ASSUME req' = [req EXCEPT ![c] = Idle], \A s \in listed' : s.type # "*"
      PROVE  /\ ControlInv' /\ AnsweredInv'
             /\ req'[c] = Idle /\ (\A d \in Callers \ {c} : req'[d] = req[d])
             /\ BeforeStartup' = BeforeStartup /\ CancelledInv'
  <2>1. req'[c] = Idle /\ \A d \in Requesters \ {c} : req'[d] = req[d]
    BY <1>1, <1>9 DEF IInv, Shape
  <2>2. CallInv(Idle, socket, HasWebsocket)
    BY IdleCall, SocketIsNat
  <2>3. ControlInv'
    BY <1>1, <1>2, <1>4, <1>5, <1>8, <1>9, <2>2, IdleIs, ControlKeeps DEF ListInv
  <2>4. AnsweredInv'
    BY <1>2, <2>1, <1>4, IdleIs, AnsweredFrame DEF ListInv
  <2>5. BeforeStartup' = BeforeStartup
    BY <1>1, <1>2, <2>1, RunTaskIsNoCaller DEF BeforeStartup
  <2>6. CancelledInv'
    BY <2>1, <1>4, IdleIs DEF CancelledInv
  <2> QED
    BY <2>1, <2>3, <2>4, <2>5, <2>6, <1>4
<1>10. CASE req[c].action = "subscribe" /\ listed' = listed \cup Entries(req[c].args)
            /\ req' = [req EXCEPT ![c] = Idle] /\ UNCHANGED raced
  <2>1. \A s \in listed' : s.type # "*"
    BY <1>10, EntriesAreConcrete DEF ListInv, ControlInv, ConcreteInv
  <2>2. ASSUME open PROVE MissingInv' /\ SurplusInv'
    <3>1. Entries(req[c].args) \subseteq sent
      BY <2>2, <1>3, <1>7, <1>10 DEF ListInv, AnsweredInv
    <3>2. Asked' = Asked \/ (BeforeStartup /\ Asked' = Asked \cup listed')
      BY <1>10, <1>9, <2>1 DEF Asked
    <3>3. listed' \ Asked' \subseteq listed \ Asked /\ sent' \ listed' \subseteq sent \ listed
      BY <3>1, <3>2, <1>10 DEF Asked
    <3>4. \A d \in Callers : req[d].action # "unsubscribe"
      BY <1>4, <1>10
    <3>5. MissingInv'
      BY <3>3, <3>4, <2>2, <1>6, <1>10 DEF MissingInv, Excused
    <3>6. \A s \in sent' \ listed' : s \in Excused
      BY <3>3, <2>2, <1>4, <1>6, <1>10 DEF SurplusInv
    <3>7. SurplusInv'
      BY <3>6, <1>10 DEF SurplusInv, Excused
    <3> QED
      BY <3>5, <3>7
  <2> QED
    BY <1>2, <1>9, <1>10, <2>1, <2>2 DEF ListInv, DifferenceInv
<1>11. CASE req[c].action = "unsubscribe" /\ req[c].todo = {}
            /\ listed' = listed \ Matching(listed, req[c].args)
            /\ raced' = (IF HasWebsocket /\ req[c].first # socket
                         THEN raced \cup Matching(listed, req[c].args) ELSE raced)
            /\ req' = [req EXCEPT ![c] = Idle]
  <2>1. \A s \in listed' : s.type # "*"
    BY <1>11 DEF ListInv, ControlInv, ConcreteInv
  <2>2. ASSUME open PROVE MissingInv' /\ SurplusInv'
    <3>1. Excused \subseteq Excused' /\ req[c].pc = "grace"
      BY <2>2, <1>1, <1>3, <1>11 DEF Excused, CallInv
    <3>2. Matching(listed, req[c].args) \cap sent \subseteq Excused'
      <4> SUFFICES ASSUME NEW s \in Matching(listed, req[c].args), s \in sent PROVE s \in raced'
        BY DEF Excused
      <4>1. CASE req[c].first # socket
        BY <4>1, <1>3, <1>11, <2>2
      <4>2. CASE req[c].first = socket
        <5>1. PICK u \in req[c].args : Matches(s, u)
          BY MatchingIs
        <5>2. Matching(Asked, {u}) \subseteq raced
          BY <4>2, <3>1, <1>6, <1>11, <2>2 DEF CancelledInv
        <5>3. s \in Matching(Asked, {u})
          BY <5>1, MatchingIs DEF Asked
        <5> QED
          BY <5>2, <5>3, <1>11
      <4> QED
        BY <4>1, <4>2
    <3>3. MissingInv'
      <4> SUFFICES ASSUME NEW s \in listed', s \notin Asked' PROVE s \in Excused'
        BY DEF MissingInv
      <4>1. s \in listed /\ s \notin Asked
        BY <1>9, <1>11, <2>1 DEF Asked
      <4>2. s \notin Matching(listed, req[c].args)
        BY <1>11
      <4> QED
        BY <4>1, <4>2, <3>1, <1>4, <1>6, <2>2 DEF MissingInv
    <3>4. SurplusInv'
      <4> SUFFICES ASSUME NEW s \in sent, s \notin listed' PROVE s \in Excused'
        BY DEF SurplusInv
      <4>1. CASE s \in listed
        BY <4>1, <3>2, <1>11
      <4>2. CASE s \notin listed
        BY <4>2, <3>1, <1>4, <1>6, <1>11, <2>2 DEF SurplusInv
      <4> QED
        BY <4>1, <4>2
    <3> QED
      BY <3>3, <3>4
  <2> QED
    BY <1>2, <1>9, <1>11, <2>1, <2>2 DEF ListInv, DifferenceInv
<1>12. ASSUME req[c].action = "unsubscribe", NEW u \in req[c].todo,
              req' = [req EXCEPT ![c] =
                        [Idle EXCEPT !.pc = "sending", !.action = req[c].action, !.args = req[c].args,
                                     !.cur = {u}, !.todo = req[c].todo \ {u}, !.first = req[c].first]],
              UNCHANGED <<listed, raced>>
       PROVE  ListInv'
  <2> DEFINE q == [Idle EXCEPT !.pc = "sending", !.action = req[c].action, !.args = req[c].args,
                               !.cur = {u}, !.todo = req[c].todo \ {u}, !.first = req[c].first]
  <2>1. /\ q.pc = "sending" /\ q.action = "unsubscribe" /\ q.args = req[c].args /\ q.cur = {u}
        /\ q.todo = req[c].todo \ {u} /\ q.first = req[c].first
    BY <1>12 DEF Idle
  <2>2. req' = [req EXCEPT ![c] = q]
    BY <1>12
  <2> HIDE DEF q
  <2>3. req'[c] = q /\ \A d \in Requesters \ {c} : req'[d] = req[d]
    BY <1>1, <2>2 DEF IInv, Shape
  <2>4. CallInv(q, socket, HasWebsocket)
    BY <1>1, <1>12, <2>1 DEF CallInv
  <2>5. ControlInv'
    <3>1. \A s \in listed' : s.type # "*"
      BY <1>12 DEF ListInv, ControlInv, ConcreteInv
    <3> QED
      BY <1>1, <1>2, <1>4, <1>5, <1>8, <1>12, <2>1, <2>2, <2>4, <3>1, ControlKeeps DEF ListInv
  <2>6. AnsweredInv'
    BY <1>2, <1>4, <2>1, <2>3, AnsweredFrame DEF ListInv
  <2>7. ASSUME open PROVE MissingInv' /\ SurplusInv' /\ CancelledInv'
    <3>1. Asked' = Asked /\ Excused' = Excused
      BY <1>2, <1>12, <2>2, RunTaskLeftAlone DEF Excused
    <3>2. req[c].pc = "grace"
      BY <2>7, <1>1, <1>3, <1>12 DEF CallInv
    <3>3. MissingInv'
      BY <1>4, <1>6, <1>12, <2>1, <2>3, <2>7, <3>1 DEF MissingInv
    <3>4. SurplusInv'
      BY <1>4, <1>6, <1>12, <2>7, <3>1 DEF SurplusInv
    <3>5. CancelledInv'
      <4> SUFFICES ASSUME req[c].first = socket, NEW v \in req[c].args \ (req[c].todo \ {u}), v \notin {u}
                   PROVE  Matching(Asked, {v}) \subseteq raced
        BY <1>2, <1>4, <1>12, <2>1, <2>3, <3>1 DEF CancelledInv
      <4> QED
        BY <1>6, <1>12, <2>7, <3>2 DEF CancelledInv
    <3> QED
      BY <3>3, <3>4, <3>5
  <2> QED
    BY <1>2, <2>5, <2>6, <2>7 DEF ListInv, DifferenceInv
<1> QED
  BY <1>1, <1>10, <1>11, <1>12 DEF RequestReturns

\* A step in which the connection is down, or goes down: only the control of it
\* and what answers rest on.
LEMMA DownKeeps ==
    ASSUME ListInv, ~open', ControlInv', UNCHANGED <<socket, sent>>,
           \A c \in Callers : req'[c] = req[c] \/ req'[c].pc \notin {"waiting", "grace"}
    PROVE  ListInv'
BY AnsweredFrame DEF ListInv, DifferenceInv

\* The run task's own request goes on, on the latest socket or not at all.
LEMMA StartupEndsListed ==
    ASSUME IInv, IInv', ListInv, RequestReturns(RunTask), Busy(RunTask), req[RunTask].pc # "sending",
           UNCHANGED <<sent, failed>>
    PROVE  ListInv'
<1>1. req' = [req EXCEPT ![RunTask] = Idle] /\ run' = "serving" /\ UNCHANGED <<socket, open, listed, raced>>
  BY RunTaskIsNoCaller DEF RequestReturns
<1>2. run = "startup"
  BY BusyRun
<1>3. HasWebsocket' = HasWebsocket /\ BeforeStartup' = BeforeStartup
  BY <1>1, <1>2 DEF HasWebsocket, BeforeStartup
<1>4. \A c \in Callers : req'[c] = req[c]
  BY <1>1, RunTaskIsNoCaller DEF IInv, Shape
<1>5. CallInv(Idle, socket, HasWebsocket)
  BY IdleCall, SocketIsNat
<1>6. \A s \in listed' : s.type # "*"
  BY <1>1 DEF ListInv, ControlInv, ConcreteInv
<1>7. ControlInv'
  BY <1>1, <1>3, <1>5, <1>6, IdleIs, RunTaskIsNoCaller, ControlKeeps DEF ListInv
<1>8. AnsweredInv'
  BY <1>1, <1>4, AnsweredFrame DEF ListInv
<1>9. DifferenceInv'
  BY <1>1, <1>3, <1>4, QuietKeeps DEF ListInv
<1> QED
  BY <1>7, <1>8, <1>9 DEF ListInv

LEMMA AnsweredListed ==
    ASSUME IInv, IInv', ListInv, Sending = {}, NEW r \in Requesters, Answered(r)
    PROVE  ListInv'
<1>1. Busy(r) /\ RequestReturns(r) /\ UNCHANGED <<sent, failed>> /\ \A d \in Requesters : req[d].pc # "sending"
  BY DEF Answered, Busy, Sending
<1>2. req[r].pc = "grace" \/ (req[r].pc = "waiting" /\ req[r].ack # 0)
  BY DEF Answered
<1> QED
  BY <1>1, <1>2, ReturnsListed, StartupEndsListed DEF Requesters

\* A startup request is on a websocket.
LEMMA SkipListed ==
    ASSUME IInv, IInv', ListInv, NEW r \in Requesters, SkipSend(r)
    PROVE  ListInv'
<1>1. Busy(r) /\ RequestReturns(r) /\ UNCHANGED <<sent, failed>> /\ ~HasWebsocket /\ req[r].pc = "sending"
  BY DEF SkipSend, Busy
<1>2. r # RunTask /\ r \in Callers
  BY <1>1, BusyRun DEF HasWebsocket, Requesters
<1>3. \A d \in Requesters \ {r} : req[d].pc # "sending"
  BY <1>1 DEF ListInv, ControlInv, OneAtATime
<1> QED
  BY <1>1, <1>2, <1>3, ReturnsListed

LEMMA RecoverStaleListed ==
    ASSUME IInv, IInv', ListInv, NEW r \in Requesters, RecoverStale(r)
    PROVE  ListInv'
<1> DEFINE q == [req[r] EXCEPT !.pc = "recovering"]
<1>1. req[r].pc \in {"waiting", "grace"} /\ req' = [req EXCEPT ![r] = q] /\ (open' => open)
      /\ UNCHANGED <<run, socket, sent, raced, listed, failed>>
  BY DEF RecoverStale, wireVars
<1>2. /\ q.pc = "recovering" /\ q.action = req[r].action /\ q.args = req[r].args /\ q.todo = req[r].todo
      /\ q.cur = req[r].cur /\ q.first = req[r].first /\ q.sock = req[r].sock
  BY DEF IInv, Shape, Fields
<1> HIDE DEF q
<1>3. req'[r] = q /\ \A d \in Requesters \ {r} : req'[d] = req[d]
  BY <1>1 DEF IInv, Shape
<1>4. HasWebsocket' = HasWebsocket
  BY <1>1 DEF HasWebsocket
<1>5. CallInv(q, socket, HasWebsocket)
  <2>1. CallInv(req[r], socket, HasWebsocket)
    BY DEF ListInv, ControlInv, CallsInv
  <2> QED
    BY <1>1, <1>2, <2>1 DEF CallInv
<1>6. ControlInv'
  <2>1. open' => run' \in {"opening", "startup", "serving"}
    BY <1>1 DEF ListInv, ControlInv, SocketInv
  <2>2. \A s \in listed' : s.type # "*"
    BY <1>1 DEF ListInv, ControlInv, ConcreteInv
  <2>3. r # RunTask => r \in Callers /\ \A d \in Callers \ {r} : req[d].pc = "idle"
    BY <1>1, CallerAlone DEF ListInv, ControlInv, Busy, Requesters
  <2>4. r = RunTask => q.action # "unsubscribe" /\ q.sock = socket
    BY <1>1, <1>2 DEF ListInv, ControlInv, StartupInv, Busy
  <2>5. r # RunTask /\ q.action = "subscribe" => \A s \in q.args : Given(s)
    BY <1>2, <2>3 DEF ListInv, ControlInv, ConcreteInv
  <2> QED
    BY <1>1, <1>2, <1>4, <1>5, <2>1, <2>2, <2>3, <2>4, <2>5, ControlKeeps DEF ListInv
<1>7. AnsweredInv'
  BY <1>1, <1>2, <1>3, RunTaskIsNoCaller, AnsweredFrame DEF ListInv
<1>8. DifferenceInv'
  <2>1. BeforeStartup' = BeforeStartup
    BY <1>1, <1>2, <1>3, RunTaskIsNoCaller DEF BeforeStartup
  <2>2. \A d \in Callers :
          /\ req'[d].action = req[d].action /\ req'[d].args = req[d].args
          /\ req'[d].todo = req[d].todo /\ req'[d].cur = req[d].cur
          /\ req'[d].first = req[d].first
          /\ req'[d].pc = "grace" => req[d].pc = "grace"
    BY <1>2, <1>3, RunTaskIsNoCaller
  <2> QED
    BY <1>1, <2>1, <2>2, QuietKeeps DEF ListInv
<1> QED
  BY <1>6, <1>7, <1>8 DEF ListInv

\* The run task is never on a socket that was replaced.
LEMMA StartupIsNotReplaced ==
    ASSUME IInv, ListInv, Busy(RunTask), req[RunTask].pc # "sending"
    PROVE  ~Replaced(RunTask) /\ req[RunTask].sock = socket
BY BusyRun DEF ListInv, ControlInv, StartupInv, Replaced, HasWebsocket

LEMMA WaitListed ==
    ASSUME IInv, IInv', ListInv, Sending = {}, NEW r \in Requesters, WaitStep(r)
    PROVE  ListInv'
<1>1. CASE Refused(r) \/ NoNewConnection(r)
  BY <1>1, RaisesListed DEF Refused, NoNewConnection, Busy
<1>2. CASE AckTimeout(r)
  <2>1. Busy(r) /\ req[r].pc # "sending" /\ ((Replaced(r) /\ Again(r, req[r].recovered)) \/ RequestRaises(r))
    BY <1>2 DEF AckTimeout, Busy
  <2> QED
    BY <2>1, RaisesListed, AgainListed, StartupIsNotReplaced DEF Requesters
<1>3. CASE Reconnected(r) \/ Recovered(r)
  <2>1. Busy(r) /\ req[r].pc # "sending" /\ (Again(r, req[r].recovered) \/ Again(r, TRUE))
        /\ (Replaced(r) \/ req[r].sock # socket)
    BY <1>3 DEF Reconnected, Recovered, Busy
  <2> QED
    BY <2>1, AgainListed, StartupIsNotReplaced DEF Requesters
<1> QED
  BY <1>1, <1>2, <1>3, AnsweredListed, RecoverStaleListed DEF WaitStep

-----------------------------------------------------------------------------
(* The steps of the connection.                                            *)

\* An answer is credited to a request; its socket is that of the frame.
LEMMA DispatchListed ==
    ASSUME IInv, IInv', ListInv, Sending = {}, Dispatch
    PROVE  ListInv'
<1>1. UNCHANGED <<run, socket, open, sent, raced, listed, failed>>
  BY DEF Dispatch, runVars
<1>2. \/ UNCHANGED req
      \/ \E r \in Requesters : \E k : req' = [req EXCEPT ![r] = [req[r] EXCEPT !.err = k]]
      \/ \E r \in Requesters : req' = [req EXCEPT ![r] = [req[r] EXCEPT !.ack = socket]]
  <2>1. pendErr \in Requesters \cup {Nobody} /\ pendAck \in Requesters \cup {Nobody}
    BY DEF IInv, TypeOK
  <2>2. PICK m \in answers : DispatchError(m) \/ DispatchAck(m)
    BY DEF Dispatch
  <2>3. CASE DispatchError(m)
    BY <2>1, <2>3 DEF DispatchError
  <2>4. CASE DispatchAck(m)
    BY <2>1, <2>4 DEF DispatchAck
  <2> QED
    BY <2>2, <2>3, <2>4
<1> DEFINE Same(d) ==
             /\ req'[d].pc = req[d].pc /\ req'[d].action = req[d].action /\ req'[d].args = req[d].args
             /\ req'[d].todo = req[d].todo /\ req'[d].cur = req[d].cur /\ req'[d].first = req[d].first
             /\ req'[d].sock = req[d].sock /\ req'[d].ack \in {req[d].ack, socket}
<1>3. \A d \in Requesters : Same(d)
  <2>1. \A d \in Requesters : DOMAIN req[d] = Fields
    BY DEF IInv, Shape
  <2>2. CASE UNCHANGED req
    BY <2>2
  <2>3. ASSUME NEW r \in Requesters, NEW k, req' = [req EXCEPT ![r] = [req[r] EXCEPT !.err = k]]
        PROVE  \A d \in Requesters : Same(d)
    BY <2>1, <2>3 DEF IInv, Shape, Fields
  <2>4. ASSUME NEW r \in Requesters, req' = [req EXCEPT ![r] = [req[r] EXCEPT !.ack = socket]]
        PROVE  \A d \in Requesters : Same(d)
    BY <2>1, <2>4 DEF IInv, Shape, Fields
  <2> QED
    BY <1>2, <2>2, <2>3, <2>4
<1>4. HasWebsocket' = HasWebsocket /\ BeforeStartup' = BeforeStartup
  BY <1>1, <1>3, RunTaskIsNoCaller DEF HasWebsocket, BeforeStartup
<1>5. ControlInv'
  <2>1. CallsInv'
    BY <1>1, <1>3, <1>4 DEF ListInv, ControlInv, CallsInv, CallInv
  <2>2. StartupInv' /\ OneAtATime' /\ ConcreteInv' /\ SocketInv'
    BY <1>1, <1>3, <1>4, RunTaskIsNoCaller
       DEF ListInv, ControlInv, StartupInv, OneAtATime, ConcreteInv, SocketInv, Busy
  <2> QED
    BY <2>1, <2>2 DEF ControlInv
<1>6. AnsweredInv'
  <2> SUFFICES ASSUME NEW c \in Callers
               PROVE  /\ req'[c].pc = "grace" \/ (req'[c].pc = "waiting" /\ req'[c].ack # 0) => req'[c].sock = socket
                      /\ req'[c].action = "subscribe" /\ req'[c].pc \in {"waiting", "grace"} /\ req'[c].sock = socket =>
                           Entries(req'[c].args) \subseteq sent
    BY <1>1 DEF AnsweredInv
  <2>1. req'[c].ack \in {0, req'[c].sock} /\ c \in Requesters
    BY RunTaskIsNoCaller DEF IInv, AckOfItsOwnSocket
  <2> QED
    BY <1>3, <2>1 DEF ListInv, AnsweredInv
<1>7. DifferenceInv'
  BY <1>1, <1>3, <1>4, RunTaskIsNoCaller, QuietKeeps DEF ListInv
<1> QED
  BY <1>5, <1>6, <1>7 DEF ListInv

\* On a new socket nothing is asked for yet. A call whose answer is in has been
\* told so before, in less time than the back-off takes.
LEMMA ConnectListed ==
    ASSUME IInv, IInv', ListInv, BackoffOutlastsGrace, Sending = {}, Connect
    PROVE  ListInv'
<1>1. /\ run = "backoff" /\ run' = "opening" /\ socket' = socket + 1 /\ socket \in Nat
      /\ sent' = {} /\ failed' = {} /\ raced' = {} /\ UNCHANGED <<listed, req>>
      /\ \A c \in Callers : ~Shortly(c)
  BY SocketIsNat DEF Connect
<1>2. ~Busy(RunTask)
  BY <1>1, BusyRun
<1>3. ControlInv'
  BY <1>1, <1>2, ControlFrame DEF ListInv
<1>4. \A c \in Callers : req[c].sock \in 0..socket /\ req[c].first \in 0..socket
  BY RunTaskIsNoCaller DEF IInv, TypeOK, ListInv, ControlInv, CallsInv, CallInv
<1>5. \A c \in Callers : req'[c].sock # socket' /\ req'[c].first # socket'
  BY <1>1, <1>4
<1>6. AnsweredInv'
  BY <1>1, <1>5 DEF AnsweredInv, Shortly
<1>7. Asked' = listed'
  BY <1>1 DEF Asked, BeforeStartup
<1>8. MissingInv' /\ SurplusInv' /\ CancelledInv'
  BY <1>1, <1>5, <1>7 DEF MissingInv, SurplusInv, CancelledInv
<1> QED
  BY <1>3, <1>6, <1>8 DEF ListInv, DifferenceInv

LEMMA StartupBeginsListed ==
    ASSUME IInv, IInv', ListInv, Sending = {}, StartupBegins
    PROVE  ListInv'
<1>1. run = "opening" /\ UNCHANGED <<socket, open, sent, raced, listed, failed>>
  BY DEF StartupBegins, wireVars
<1>2. CASE listed = {} /\ run' = "serving" /\ UNCHANGED req
  <2>1. HasWebsocket' = HasWebsocket
    BY <1>1, <1>2 DEF HasWebsocket
  <2>2. ControlInv'
    BY <1>1, <1>2, <2>1, ControlFrame DEF ListInv, ControlInv, SocketInv
  <2>3. AnsweredInv' /\ DifferenceInv'
    BY <1>1, <1>2, QuietKeeps, AnsweredFrame DEF ListInv
  <2> QED
    BY <2>2, <2>3 DEF ListInv
<1>3. CASE run' = "startup" /\ req' = [req EXCEPT ![RunTask] = NewRequest("subscribe", listed, listed)]
  <2> DEFINE q == NewRequest("subscribe", listed, listed)
  <2>1. q.pc = "sending" /\ q.action = "subscribe" /\ q.args = listed /\ q.cur = listed /\ q.first = 0
    BY DEF NewRequest, Idle
  <2>2. req' = [req EXCEPT ![RunTask] = q]
    BY <1>3
  <2> HIDE DEF q
  <2>3. req'[RunTask] = q /\ \A c \in Callers : req'[c] = req[c]
    BY <2>2, RunTaskIsNoCaller DEF IInv, Shape
  <2>4. HasWebsocket' = HasWebsocket /\ BeforeStartup /\ BeforeStartup'
    BY <1>1, <1>3, <2>1, <2>3 DEF HasWebsocket, BeforeStartup
  <2>5. CallInv(q, socket, HasWebsocket)
    BY <2>1, SocketIsNat DEF CallInv
  <2>6. ControlInv'
    <3>1. (\A s \in listed' : s.type # "*") /\ (\A d \in Requesters : req[d].pc # "sending")
      BY <1>1 DEF ListInv, ControlInv, ConcreteInv, Sending
    <3> QED
      BY <1>1, <1>3, <2>1, <2>2, <2>4, <2>5, <3>1, RunTaskIsNoCaller, ControlKeeps DEF ListInv
  <2>7. AnsweredInv' /\ DifferenceInv'
    BY <1>1, <2>3, <2>4, QuietKeeps, AnsweredFrame DEF ListInv
  <2> QED
    BY <2>6, <2>7 DEF ListInv
<1> QED
  BY <1>2, <1>3 DEF StartupBegins

LEMMA CancelListed ==
    ASSUME IInv, IInv', ListInv, CancelRun
    PROVE  ListInv'
<1>1. /\ run \in {"backoff", "opening", "startup", "serving"}
      /\ run' = (IF run = "backoff" THEN "done" ELSE "leaving") /\ ~open'
      /\ req' = [req EXCEPT ![RunTask] = Idle] /\ UNCHANGED <<socket, sent, listed>>
  BY DEF CancelRun, wireVars
<1>2. HasWebsocket' = HasWebsocket
  BY <1>1 DEF HasWebsocket
<1>3. CallInv(Idle, socket, HasWebsocket)
  BY IdleCall, SocketIsNat
<1>4. \A s \in listed' : s.type # "*"
  BY <1>1 DEF ListInv, ControlInv, ConcreteInv
<1>5. ControlInv'
  BY <1>1, <1>2, <1>3, <1>4, IdleIs, RunTaskIsNoCaller, ControlKeeps DEF ListInv
<1>6. \A c \in Callers : req'[c] = req[c]
  BY <1>1, RunTaskIsNoCaller DEF IInv, Shape
<1> QED
  BY <1>1, <1>5, <1>6, DownKeeps

\* The socket is lost, the run task leaves, the connection is closed.
LEMMA LeaveListed ==
    ASSUME IInv, IInv', ListInv,
           \/ Sending = {} /\ (ReaderEnded \/ Disconnected \/ SocketLost \/ Close)
           \/ UNCHANGED vars
    PROVE  ListInv'
<1>1. UNCHANGED <<socket, sent, raced, listed, failed, req>> /\ (open' => open)
  BY DEF ReaderEnded, Disconnected, SocketLost, Close, wireVars, vars, runVars
<1>2. \/ UNCHANGED run
      \/ run = "serving" /\ run' = "leaving" /\ ~open /\ ~open' /\ Sending = {}
      \/ run = "leaving" /\ run' \in {"done", "backoff"} /\ UNCHANGED open /\ Sending = {}
  BY DEF ReaderEnded, Disconnected, SocketLost, Close, vars, runVars
<1>3. BeforeStartup' = BeforeStartup
  BY <1>1, <1>2 DEF BeforeStartup
<1>4. ControlInv'
  <2>1. open' => run' \in {"opening", "startup", "serving"}
    BY <1>1, <1>2 DEF ListInv, ControlInv, SocketInv
  <2>2. (HasWebsocket' => HasWebsocket) /\ (Sending = {} \/ HasWebsocket' = HasWebsocket)
    BY <1>2 DEF HasWebsocket
  <2>3. HasWebsocket' => socket' > 0
    BY <1>1, <2>2 DEF ListInv, ControlInv, SocketInv
  <2> QED
    BY <1>1, <2>1, <2>2, <2>3, ControlFrame DEF ListInv
<1>5. AnsweredInv' /\ DifferenceInv'
  BY <1>1, <1>3, QuietKeeps, AnsweredFrame DEF ListInv
<1> QED
  BY <1>4, <1>5 DEF ListInv

LEMMA ListKeeps == BackoffOutlastsGrace /\ IInv /\ IInv' /\ ListInv /\ [Next]_vars => ListInv'
<1> SUFFICES ASSUME BackoffOutlastsGrace, IInv, IInv', ListInv, [Next]_vars PROVE ListInv'
  OBVIOUS
<1>1. CASE SendStep
  <2>1. PICK r \in Requesters : Send(r) \/ SkipSend(r)
    BY <1>1 DEF SendStep, Sending
  <2> QED
    BY <2>1, SendStartupListed, SendCallListed, SkipListed DEF Requesters
<1>2. CASE Sending = {} /\ ((\E c \in Callers : Subscribe(c) \/ Unsubscribe(c)) \/ \E r \in Requesters : WaitStep(r))
  BY <1>2, SubscribeListed, WaitListed
<1>3. CASE Sending = {} /\ (Dispatch \/ RunStep \/ SocketLost \/ Close)
  BY <1>3, DispatchListed, ConnectListed, StartupBeginsListed, CancelListed, LeaveListed DEF RunStep
<1>4. CASE UNCHANGED vars
  BY <1>4, LeaveListed
<1> QED
  BY <1>1, <1>2, <1>3, <1>4 DEF Next

\* While the connection serves and no call is under way, list and server differ
\* only where a call has failed halfway, or unsubscribe has raced a reconnect; for
\* any callers, calls and sockets, whatever was lost, retried or recovered. It
\* rests on the back-off being longer than the grace (2269, 2300, 2357, 2415-2466).
THEOREM ListedIsAskedForAlways ==
    ASSUME BackoffOutlastsGrace PROVE Spec => []ListedIsAskedFor
<1>1. Init => ListInv
  BY ListInit
<1>2. IInv /\ IInv' /\ ListInv /\ [Next]_vars => ListInv'
  BY ListKeeps
<1>3. Spec => []ListInv
  BY <1>1, <1>2, Inductive, PTL DEF Spec
<1>4. ListInv => ListedIsAskedFor
  <2> SUFFICES ASSUME ListInv, run = "serving", open, LockFree,
                      NEW s \in (listed \ sent) \cup (sent \ listed)
               PROVE  s \in failed \cup raced
    BY DEF ListedIsAskedFor
  <2>1. Asked = sent /\ MissingInv /\ SurplusInv
    BY DEF Asked, BeforeStartup, ListInv, DifferenceInv
  <2>2. \A c \in Callers : req[c].action = "none"
    BY RunTaskIsNoCaller DEF LockFree, Busy, ListInv, ControlInv, CallsInv, CallInv
  <2> QED
    BY <2>1, <2>2 DEF MissingInv, SurplusInv, Excused
<1> QED
  BY <1>3, <1>4, PTL

=============================================================================
