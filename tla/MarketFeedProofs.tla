-------------------------- MODULE MarketFeedProofs --------------------------
(***************************************************************************)
(* Theorems of MarketFeed, for any tokens, queue size, options, patience   *)
(* of the stale monitor and number of monitors alive.                      *)
(*                                                                         *)
(* SnapshotOfThisSocket is not inductive: the processor sets the flag from *)
(* a queued book frame, so the frames in the queue have to be spoken of,   *)
(* and the last socket's are only gone because Connect empties the queue.  *)
(* LastSnapshotStands needs that, without a store, the flag is only set by *)
(* parsed delivery: then it also falls with every frame not understood.    *)
(***************************************************************************)
EXTENDS MarketFeed, SequenceTheorems, TLAPS

BookQueued == \E i \in DOMAIN queue : queue[i].kind = "book"

\* The reader and the processor run beside a stale monitor of their own.
MonitorInv == conn \in {"up", "draining"} => monitors > 0

\* What makes the flag or the store speak came over this socket.
SnapshotInv ==
    conn = "up" /\ (Synchronized \/ books # {} \/ BookQueued) => answered

\* Only a parsed snapshot sets the flag of a feed without a store.
EventInv ==
    Synchronized /\ ~options.store => options.parsed /\ behind # Tokens

IInv ==
    /\ TypeOK /\ MonitorInv
    /\ SnapshotInv
    /\ EventInv
    /\ StaleOffersNothing
    /\ RawFlagAgreesWithStore

-----------------------------------------------------------------------------
LEMMA FrameFields ==
    ASSUME NEW f \in Frames
    PROVE  /\ f.kind \in {"book", "delta", "odd", "garbage"}
           /\ f.tokens \in (SUBSET Tokens) \ {{}}
           /\ f.age \in Ages
           /\ f = [kind |-> f.kind, tokens |-> f.tokens, age |-> f.age]
BY DEF Frames

\* A frame that gets older stays a frame.
LEMMA OlderAge == ASSUME NEW a \in Ages PROVE Older(a) \in Ages
BY ConstantsAssumption DEF Ages, Older

LEMMA OlderFrame ==
    ASSUME NEW f \in Frames
    PROVE  [f EXCEPT !.age = Older(@)] \in Frames
<1>1. Older(f.age) \in Ages
  BY FrameFields, OlderAge
<1> DEFINE a == Older(f.age)
<1> HIDE DEF a
<1>2. a \in Ages => [f EXCEPT !.age = a] \in Frames
  BY DEF Frames
<1>3. QED
  BY <1>1, <1>2 DEF a

LEMMA NothingQueued == <<>> \in Seq(Frames) /\ Len(<<>>) <= QueueSize
BY ConstantsAssumption

LEMMA InitIInv == Init => IInv
<1> SUFFICES ASSUME Init PROVE IInv
  OBVIOUS
<1>1. TypeOK
  <2>1. queue \in Seq(Frames) /\ Len(queue) <= QueueSize
    BY NothingQueued DEF Init
  <2>2. 0 \in 0..MaxMonitors /\ 0 \in Ages
    BY ConstantsAssumption DEF Ages
  <2>3. QED
    BY <2>1, <2>2 DEF Init, TypeOK, Reasons
<1>2. MonitorInv /\ SnapshotInv /\ EventInv /\ StaleOffersNothing /\ RawFlagAgreesWithStore
  BY DEF Init, MonitorInv, SnapshotInv, EventInv, StaleOffersNothing,
         RawFlagAgreesWithStore, Synchronized
<1>3. QED
  BY <1>1, <1>2 DEF IInv

\* The oldest frame leaves, another one may come: the queue's frames are
\* frames, and its book frames were queued before, or just came.
LEMMA TailFacts ==
    ASSUME TypeOK, queue # <<>>
    PROVE  /\ Head(queue) \in Frames
           /\ Tail(queue) \in Seq(Frames) /\ Len(Tail(queue)) = Len(queue) - 1
           /\ Head(queue) = queue[1] /\ 1 \in DOMAIN queue
           /\ \A i \in DOMAIN Tail(queue) :
                i + 1 \in DOMAIN queue /\ Tail(queue)[i] = queue[i + 1]
BY DEF TypeOK

LEMMA AppendFacts ==
    ASSUME NEW q \in Seq(Frames), NEW f \in Frames
    PROVE  /\ Append(q, f) \in Seq(Frames) /\ Len(Append(q, f)) = Len(q) + 1
           /\ \A i \in DOMAIN Append(q, f) :
                \/ i \in DOMAIN q /\ Append(q, f)[i] = q[i]
                \/ Append(q, f)[i] = f
OBVIOUS

-----------------------------------------------------------------------------
(* What a frame does when it arrives and when it is taken.                 *)

\* Receive keeps every conjunct, however the queue makes room.
LEMMA ReceiveStep ==
    ASSUME IInv, NEW f \in Frames, Receive(f)
    PROVE  IInv'
<1> USE ConstantsAssumption DEF IInv
<1>0. /\ f.kind \in {"book", "delta", "odd", "garbage"}
      /\ f.tokens \in (SUBSET Tokens) \ {{}} /\ f.age \in Ages
  BY FrameFields
<1>1. /\ books' \subseteq Tokens /\ silence' \in Ages /\ warning' \in BOOLEAN
  BY <1>0 DEF Receive, ObserveStore, MarkFresh, InvalidateStore, TypeOK, Ages,
              timeVars
<1>2. CASE Put(f)
  <2>1. queue' \in Seq(Frames) /\ Len(queue') <= QueueSize
    BY <1>2, AppendFacts DEF Put, TypeOK
  <2>2. TypeOK'
    BY <1>1, <1>2, <2>1 DEF Receive, Put, ObserveFlag, MarkResynchronized,
       InvalidateFlag, TypeOK, Reasons
  <2>3. MonitorInv'
    BY <1>2 DEF Receive, Put, MonitorInv
  <2>4. SnapshotInv'
    <3>1. BookQueued' => BookQueued \/ f.kind = "book"
      BY <1>2, AppendFacts DEF Put, TypeOK, BookQueued
    <3>2. QED
      BY <1>0, <1>2, <3>1 DEF Receive, Put, SnapshotInv, ObserveFlag, ObserveStore,
         MarkResynchronized, InvalidateFlag, InvalidateStore, Synchronized
  <2>5. EventInv'
    BY <1>0, <1>2 DEF Receive, Put, EventInv, ObserveFlag, MarkResynchronized,
       InvalidateFlag, Synchronized
  <2>6. StaleOffersNothing'
    BY <1>0, <1>2 DEF Receive, Put, StaleOffersNothing, ObserveFlag, ObserveStore,
       MarkResynchronized, InvalidateFlag, InvalidateStore, MarkFresh, timeVars,
       Synchronized
  <2>7. RawFlagAgreesWithStore'
    BY <1>0, <1>2 DEF Receive, Put, RawFlagAgreesWithStore, ObserveFlag,
       ObserveStore, MarkResynchronized, InvalidateFlag, InvalidateStore, Synchronized
  <2>8. QED
    BY <2>2, <2>3, <2>4, <2>5, <2>6, <2>7
<1>3. CASE DropOldest(f)
  <2>0. queue # <<>>
    BY <1>3 DEF DropOldest, Full, TypeOK
  <2> DEFINE rest == Tail(queue)
  <2>1. rest \in Seq(Frames) /\ Len(rest) = Len(queue) - 1
    BY <2>0, TailFacts
  <2>2. Head(queue) \in Frames /\ Head(queue).tokens \subseteq Tokens
    BY <2>0, TailFacts, FrameFields
  <2>3. \A i \in DOMAIN rest : i + 1 \in DOMAIN queue /\ rest[i] = queue[i + 1]
    BY <2>0, TailFacts
  <2>4. queue' = Append(rest, f) /\ ~Synchronized'
    BY <1>3 DEF DropOldest, InvalidateFlag, Synchronized
  <2> HIDE DEF rest
  <2>5. queue' \in Seq(Frames) /\ Len(queue') <= QueueSize
    BY <2>1, <2>4, AppendFacts DEF TypeOK
  <2>6. TypeOK'
    BY <1>1, <1>3, <2>2, <2>5 DEF Receive, DropOldest, InvalidateFlag, TypeOK, Reasons
  <2>7. MonitorInv'
    BY <1>3 DEF Receive, DropOldest, MonitorInv
  <2>8. SnapshotInv'
    <3>1. BookQueued' => BookQueued \/ f.kind = "book"
      BY <2>1, <2>3, <2>4, AppendFacts DEF BookQueued
    <3>2. QED
      BY <1>0, <1>3, <2>4, <3>1 DEF Receive, DropOldest, SnapshotInv, ObserveStore,
         InvalidateStore
  <2>9. EventInv' /\ RawFlagAgreesWithStore'
    BY <2>4 DEF EventInv, RawFlagAgreesWithStore
  <2>10. StaleOffersNothing'
    BY <1>0, <2>4 DEF Receive, StaleOffersNothing, ObserveStore, InvalidateStore,
       MarkFresh, timeVars
  <2>11. QED
    BY <2>6, <2>7, <2>8, <2>9, <2>10
<1>4. CASE GiveUp
  <2>1. ~Synchronized' /\ conn' = "lost"
    BY <1>4 DEF GiveUp, InvalidateFlag, Synchronized
  <2>2. TypeOK'
    BY <1>1, <1>4 DEF Receive, GiveUp, InvalidateFlag, TypeOK, Reasons
  <2>3. StaleOffersNothing'
    BY <1>0, <2>1 DEF Receive, StaleOffersNothing, ObserveStore, InvalidateStore,
       MarkFresh, timeVars
  <2>4. QED
    BY <2>1, <2>2, <2>3 DEF MonitorInv, SnapshotInv, EventInv, RawFlagAgreesWithStore
<1>5. QED
  BY <1>2, <1>3, <1>4 DEF Receive

LEMMA TakeStep ==
    ASSUME IInv, Take
    PROVE  IInv'
<1> USE DEF IInv
<1> DEFINE f == Head(queue)
<1>0. queue # <<>> /\ conn \in {"up", "draining"}
  BY DEF Take
<1>1. /\ f.kind \in {"book", "delta", "odd", "garbage"}
      /\ f.tokens \in (SUBSET Tokens) \ {{}} /\ f.age \in Ages
  BY <1>0, TailFacts, FrameFields
<1>2. queue' \in Seq(Frames) /\ Len(queue') <= QueueSize
  BY <1>0, TailFacts, ConstantsAssumption DEF Take, TypeOK
<1>3. TakeBook(f) \/ TakeDelta(f) \/ TakeUnparsed(f)
  BY DEF Take
<1>4. BookQueued' => BookQueued
  BY <1>0, TailFacts DEF Take, BookQueued
<1>5. f.kind = "book" => BookQueued
  BY <1>0, TailFacts DEF BookQueued
<1> HIDE DEF f
<1>6. TypeOK'
  BY <1>1, <1>2, <1>3 DEF Take, TakeBook, TakeDelta, TakeUnparsed, MarkResynchronized,
     MarkFresh, InvalidateFlag, timeVars, socketVars, TypeOK, Reasons
<1>7. MonitorInv'
  BY DEF Take, MonitorInv, socketVars
<1>8. SnapshotInv'
  BY <1>3, <1>4, <1>5 DEF Take, TakeBook, TakeDelta, TakeUnparsed, MarkResynchronized,
     InvalidateFlag, socketVars, SnapshotInv, Synchronized
<1>9. EventInv'
  BY <1>1, <1>3 DEF Take, TakeBook, TakeDelta, TakeUnparsed, MarkResynchronized,
     InvalidateFlag, socketVars, EventInv, Synchronized
<1>10. StaleOffersNothing'
  BY <1>3 DEF Take, TakeBook, TakeDelta, TakeUnparsed, MarkResynchronized, MarkFresh,
     InvalidateFlag, timeVars, StaleOffersNothing, Synchronized
<1>11. RawFlagAgreesWithStore'
  BY <1>3 DEF Take, TakeBook, TakeDelta, TakeUnparsed, MarkResynchronized,
     InvalidateFlag, socketVars, RawFlagAgreesWithStore, Synchronized
<1>12. QED
  BY <1>6, <1>7, <1>8, <1>9, <1>10, <1>11

LEMMA TickStep ==
    ASSUME IInv, Tick
    PROVE  IInv'
<1> USE DEF IInv
<1>1. silence' \in Ages
  BY OlderAge DEF Tick, TypeOK
<1>2. /\ queue' \in Seq(Frames) /\ Len(queue') = Len(queue)
      /\ DOMAIN queue' = DOMAIN queue
      /\ \A i \in DOMAIN queue : queue'[i].kind = queue[i].kind
  <2> DEFINE g == [i \in DOMAIN queue |-> [queue[i] EXCEPT !.age = Older(@)]]
  <2>1. queue \in Seq(Frames)
    BY DEF TypeOK
  <2>2. ASSUME NEW i \in DOMAIN queue
        PROVE  queue[i] \in Frames
    BY <2>1
  <2>3. ASSUME NEW i \in DOMAIN queue
        PROVE  g[i] \in Frames /\ g[i].kind = queue[i].kind
    <3>1. g[i] = [queue[i] EXCEPT !.age = Older(@)]
      OBVIOUS
    <3>2. [queue[i] EXCEPT !.age = Older(@)] \in Frames
      BY <2>2, OlderFrame
    <3>3. [queue[i] EXCEPT !.age = Older(@)].kind = queue[i].kind
      BY <2>2, FrameFields
    <3>4. QED
      BY <3>1, <3>2, <3>3
  <2>4. DOMAIN queue = 1..Len(queue) /\ Len(queue) \in Nat /\ DOMAIN g = DOMAIN queue
    BY <2>1
  <2>5. queue' = g
    BY DEF Tick
  <2> HIDE DEF g
  <2>6. g \in [1..Len(queue) -> Frames]
    <3>1. g = [i \in DOMAIN queue |-> g[i]]
      BY DEF g
    <3>2. QED
      BY <2>3, <2>4, <3>1
  <2>7. g \in Seq(Frames) /\ Len(g) = Len(queue)
    BY <2>4, <2>6, SeqDef
  <2>8. QED
    BY <2>3, <2>4, <2>5, <2>7
<1>3. TypeOK'
  BY <1>1, <1>2 DEF Tick, TypeOK, socketVars, bookVars, ghostVars
<1>4. BookQueued' = BookQueued
  BY <1>2 DEF BookQueued
<1>5. QED
  BY <1>3, <1>4 DEF Tick, socketVars, bookVars, ghostVars, MonitorInv, SnapshotInv,
     EventInv, StaleOffersNothing, RawFlagAgreesWithStore, Synchronized

-----------------------------------------------------------------------------
LEMMA StepIInv == IInv /\ [Next]_vars => IInv'
<1> SUFFICES ASSUME IInv, [Next]_vars PROVE IInv'
  OBVIOUS
<1> USE ConstantsAssumption DEF IInv
<1>1. CASE Connect
  <2>1. TypeOK'
    <3>1. queue' \in Seq(Frames) /\ Len(queue') <= QueueSize
      BY <1>1, NothingQueued DEF Connect
    <3>2. monitors + 1 \in 0..MaxMonitors /\ 0 \in Ages
      BY <1>1 DEF Connect, TypeOK, Ages
    <3>3. QED
      BY <1>1, <3>1, <3>2 DEF Connect, InvalidateFlag, InvalidateStore, TypeOK, Reasons
  <2>2. QED
    BY <1>1, <2>1 DEF Connect, InvalidateFlag, InvalidateStore, TypeOK, MonitorInv,
       SnapshotInv, EventInv, StaleOffersNothing, RawFlagAgreesWithStore,
       Synchronized, BookQueued
<1>2. CASE SocketCloses
  BY <1>2 DEF SocketCloses, queueVars, bookVars, timeVars, ghostVars, TypeOK,
     MonitorInv, SnapshotInv, EventInv, StaleOffersNothing, RawFlagAgreesWithStore,
     Synchronized
<1>3. CASE Drained \/ ReaderFails \/ Stopped
  <2>1. \E to \in {"lost", "ending"}, left \in {monitors, monitors - 1} :
          Leave(to, left) /\ conn \in {"up", "draining"}
    BY <1>3 DEF Drained, ReaderFails, Stopped
  <2>2. monitors' \in 0..MaxMonitors
    BY <2>1 DEF Leave, TypeOK, MonitorInv
  <2>3. TypeOK'
    BY <2>1, <2>2 DEF Leave, bookVars, timeVars, ghostVars, TypeOK
  <2>4. QED
    BY <2>1, <2>3 DEF Leave, bookVars, timeVars, ghostVars, MonitorInv, SnapshotInv,
       EventInv, StaleOffersNothing, RawFlagAgreesWithStore, Synchronized
<1>4. CASE Disconnected
  BY <1>4 DEF Disconnected, InvalidateFlag, InvalidateStore, queueVars, timeVars,
     ghostVars, TypeOK, Reasons, MonitorInv, SnapshotInv, EventInv,
     StaleOffersNothing, RawFlagAgreesWithStore, Synchronized
<1>5. CASE Abandoned
  BY <1>5 DEF Abandoned, queueVars, bookVars, timeVars, ghostVars, TypeOK, MonitorInv,
     SnapshotInv, EventInv, StaleOffersNothing, RawFlagAgreesWithStore, Synchronized
<1>6. ASSUME NEW f \in Frames, Receive(f) PROVE IInv'
  BY <1>6, ReceiveStep
<1>7. CASE Take
  BY <1>7, TakeStep
<1>8. CASE CallbackReturns
  <2>1. TypeOK'
    BY <1>8 DEF CallbackReturns, socketVars, bookVars, timeVars, ghostVars, TypeOK
  <2>2. QED
    BY <1>8, <2>1 DEF CallbackReturns, socketVars, bookVars, timeVars, ghostVars,
       MonitorInv, SnapshotInv, EventInv, StaleOffersNothing, RawFlagAgreesWithStore,
       Synchronized, BookQueued
<1>9. CASE Poll
  <2>1. TypeOK'
    BY <1>9 DEF Poll, InvalidateFlag, InvalidateStore, queueVars, ghostVars, TypeOK,
       Reasons
  <2>2. QED
    BY <1>9, <2>1 DEF Poll, InvalidateFlag, InvalidateStore, queueVars, ghostVars,
       MonitorInv, SnapshotInv, EventInv, StaleOffersNothing, RawFlagAgreesWithStore,
       Synchronized, BookQueued
<1>10. CASE Tick
  BY <1>10, TickStep
<1>11. CASE UNCHANGED vars
  BY <1>11 DEF vars, socketVars, queueVars, bookVars, timeVars, ghostVars, TypeOK,
     MonitorInv, SnapshotInv, EventInv, StaleOffersNothing, RawFlagAgreesWithStore,
     Synchronized, BookQueued
<1>12. QED
  BY <1>1, <1>2, <1>3, <1>4, <1>5, <1>6, <1>7, <1>8, <1>9, <1>10, <1>11 DEF Next

LEMMA SpecIInv == Spec => []IInv
BY InitIInv, StepIInv, PTL DEF Spec

-----------------------------------------------------------------------------
\* Every variable has its type, however the feed was opened.
THEOREM TypeCorrect == Spec => []TypeOK
BY SpecIInv, PTL DEF IInv

\* Neither the flag nor the store of a socket that is up speaks before a
\* snapshot has come over this socket: what the last one queued or stored does
\* not count, however it ended.
THEOREM SnapshotIsOfThisSocket == Spec => []SnapshotOfThisSocket
<1>1. IInv => SnapshotOfThisSocket
  BY DEF IInv, SnapshotInv, SnapshotOfThisSocket
<1>2. QED
  BY <1>1, SpecIInv, PTL

\* While a stale warning is up nothing offers a book, whichever monitor raised
\* it and whatever is taken from the queue meanwhile.
THEOREM StaleIsSilent == Spec => []StaleOffersNothing
BY SpecIInv, PTL DEF IInv

\* Without a store, a callback that is told its books are synchronized has
\* missed nothing of at least one token since that token's snapshot.
THEOREM SomeSnapshotStands == Spec => []LastSnapshotStands
<1>1. IInv => LastSnapshotStands
  BY DEF IInv, EventInv, LastSnapshotStands
<1>2. QED
  BY <1>1, SpecIInv, PTL

\* With raw delivery, books that are called synchronized are in the store.
THEOREM RawFlagIsStoreBacked == Spec => []RawFlagAgreesWithStore
BY SpecIInv, PTL DEF IInv
=============================================================================
